---- MODULE Spec2Model ----
(***************************************************************************)
(* A model of opaque-vpn: the IpManager address allocator, the Router and  *)
(* its IpLease handles, the server session driver, the length-prefixed     *)
(* packet codec, the NetworkConfig frame, the Router's dispatch, the       *)
(* client's pumps with their stop latch, and a session's forwarding.       *)
(*                                                                         *)
(* A u32 that holds address bits is the set of its set bit positions       *)
(* (bit 0 is the least significant), so that the bitwise operators of the  *)
(* source are set operators; a u32 that holds a host index or a size is a  *)
(* natural number.                                                         *)
(***************************************************************************)
EXTENDS Integers, Sequences, FiniteSets, TLC

VARIABLES
    ipm,        \* IpManager under test: blocked, subnet, netmask, min_free, subnet_size
    held,       \* history: addresses returned by an allocation and not released since
    allocs,     \* history: the addresses returned by the allocations so far, in order
    phase,      \* history: which operations have run on ipm since construction
    config,     \* the server's configuration: address (gateway), netmask, mtu
    ip_manager, \* Router.ip_manager / Server.ip_manager: the IpManager behind the mutex
    ipmLock,    \* the task that holds the ip_manager mutex, if any
    routes,     \* Router.routes / Server.routes: virtual address -> sink
    sess,       \* the session tasks: pc, the address and the lease each one holds
    cleanups,   \* the cleanup tasks spawned by IpLease::drop that have not finished
    issued,     \* history: the number of leases handed out by get_ip so far
    wire,       \* the byte stream under the codec: bytes written and not yet read
    wclosed,    \* the stream has ended: no more bytes will be written
    snd,        \* TaggedPacketSender::send: pc, packet, offset, result of the last call
    rcv,        \* TaggedPacketReceiver::receive: pc, length bytes, packet_size, packet
    sentLog,    \* history: the payloads send accepted, in order
    recvLog,    \* history: the payloads receive returned, in order
    nc,         \* a NetworkConfig on its way through encoding and decoding
    server,     \* struct Server: ip_manager, routes, gateway, netmask, mtu
    conn,       \* per connection: handle_client, the bytes it wrote, the client
    tunReads,   \* history: the packets route_incoming has read from the TUN
    router,     \* struct Router with its dispatch: ip_manager, routes, tun_writer
    sinks,      \* the PacketSinks bound so far: lock holder, bytes written, broken
    rsess,      \* the session tasks over the Router: pc, address, lease
    task,       \* the dispatch each task has in progress: route_local / route_packet
    drops,      \* the tasks spawned by IpLease::drop that have not finished
    rhist,      \* history: leases handed out, packets dispatched
    stop,       \* the watch channel behind stop_sender / stop_receiver: value, version
    pumps,      \* send_tun and receive_tun: pc, version seen, the packet in hand
    tlsio,      \* the client's TLS stream: bytes to read, bytes written, shut down
    tunio,      \* the client's TUN device: packets to read, bytes written
    crun,       \* Client::run after the pumps were started: pc, reroute, result
    chist,      \* history: the bytes a cancelled receive had taken off the stream
    fsess,      \* per session: client TUN, receive_tun, the stream up, forward_packets,
                \* the stream down, send_tun, the packets written to the client TUN
    ftun,       \* the server's TUN behind tun_writer: the packets written, in order
    fhist       \* history: the packets route_incoming has sent down

ipmVars == <<ipm, held, allocs, phase>>
routerVars == <<config, ip_manager, ipmLock, routes, sess, cleanups, issued>>

frameVars == <<wire, wclosed, snd, rcv, sentLog, recvLog>>

vars == <<ipm, held, allocs, phase, config, ip_manager, ipmLock, routes, sess, cleanups,
          issued, wire, wclosed, snd, rcv, sentLog, recvLog, nc, server, conn, tunReads,
          router, sinks, rsess, task, drops, rhist, stop, pumps, tlsio, tunio, crun,
          chist, fsess, ftun, fhist>>

\* what the actions of one part leave alone: the variables of the other parts
serverVars == <<server, conn, tunReads>>
dispatchVars == <<router, sinks, rsess, task, drops, rhist>>
clientVars == <<stop, pumps, tlsio, tunio, crun, chist>>
forwardVars == <<fsess, ftun, fhist>>

notIpmVars == <<routerVars, frameVars, nc, serverVars, dispatchVars, clientVars, forwardVars>>
notRouterVars == <<ipmVars, frameVars, nc, serverVars, dispatchVars, clientVars, forwardVars>>
notFrameVars == <<ipmVars, routerVars, nc, serverVars, dispatchVars, clientVars, forwardVars>>
notConfigVars == <<ipmVars, routerVars, frameVars, serverVars, dispatchVars, clientVars, forwardVars>>
notServerVars == <<ipmVars, routerVars, frameVars, nc, dispatchVars, clientVars, forwardVars>>
notDispatchVars == <<ipmVars, routerVars, frameVars, nc, serverVars, clientVars, forwardVars>>
notClientVars == <<ipmVars, routerVars, frameVars, nc, serverVars, dispatchVars, forwardVars>>
notForwardVars == <<ipmVars, routerVars, frameVars, nc, serverVars, dispatchVars, clientVars>>

\* Option<T>: None is the empty sequence, Some(x) is <<x>>
None == <<>>
Some(x) == <<x>>

(***************************************************************************)
(* u32 arithmetic                                                          *)
(***************************************************************************)
U32_BITS == 32
BitPos == 0 .. (U32_BITS - 1)

RECURSIVE Pow2(_)
Pow2(n) == IF n = 0 THEN 1 ELSE 2 * Pow2(n - 1)

\* the u32 whose set bits are s, as a number
RECURSIVE BitsToNat(_)
BitsToNat(s) ==
    IF s = {} THEN 0
    ELSE LET i == CHOOSE x \in s : TRUE
         IN Pow2(i) + BitsToNat(s \ {i})

\* the set bits of the number n
RECURSIVE NatBitsFrom(_, _)
NatBitsFrom(n, i) ==
    IF n = 0 THEN {}
    ELSE (IF n % 2 = 1 THEN {i} ELSE {}) \cup NatBitsFrom(n \div 2, i + 1)
NatToBits(n) == NatBitsFrom(n, 0)

BitAnd(a, b) == a \cap b
BitOr(a, b) == a \cup b
BitXor(a, b) == (a \ b) \cup (b \ a)
BitNot(a) == BitPos \ a

\* x - 1 on a u32 x # 0: the lowest set bit is cleared and the bits below it are set
RECURSIVE LowestPos(_, _)
LowestPos(x, i) == IF i \in x THEN i ELSE LowestPos(x, i + 1)
Sub1(x) ==
    LET l == LowestPos(x, 0)
    IN (x \ {l}) \cup (0 .. (l - 1))

\* x << 1 on a u32: the bit shifted out of position 31 is lost
Shl1(x) == {i + 1 : i \in {j \in x : j + 1 < U32_BITS}}

\* u32::count_zeros
CountZeros(x) == Cardinality(BitNot(x))

\* Ipv4Addr::to_bits of a.b.c.d
RECURSIVE OctetBits(_, _)
OctetBits(o, shift) == {i + shift : i \in {j \in 0 .. 7 : (o \div Pow2(j)) % 2 = 1}}
Ipv4(a, b, c, d) ==
    OctetBits(a, 24) \cup OctetBits(b, 16) \cup OctetBits(c, 8) \cup OctetBits(d, 0)

\* Ipv4Addr::octets of the address with bits x
Octet(x, shift) == BitsToNat({i - shift : i \in {j \in x : j >= shift /\ j < shift + 8}})
Octets(x) == <<Octet(x, 24), Octet(x, 16), Octet(x, 8), Octet(x, 0)>>

(***************************************************************************)
(* IpManager (src/src/ip_manager.rs)                                       *)
(***************************************************************************)

\* 1u32 << n as the release build computes it: the shift amount wraps at 32
ShlOne(n) == Pow2(n % U32_BITS)

IpManagerNew(subnet, netmask) ==
    [blocked |-> {},
     subnet |-> BitAnd(subnet, netmask),
     netmask |-> netmask,
     min_free |-> 0,
     subnet_size |-> ShlOne(CountZeros(netmask))]

\* the loop of compress_address: mask, offset and res are its locals
RECURSIVE CompressLoop(_, _, _, _)
CompressLoop(addr_bits, mask, offset, res) ==
    IF mask = {} THEN res
    ELSE LET lowest_bit == BitAnd(mask, BitNot(Sub1(mask)))
             res2 == IF BitAnd(addr_bits, lowest_bit) # {} THEN BitOr(res, offset) ELSE res
         IN CompressLoop(addr_bits, BitXor(mask, lowest_bit), Shl1(offset), res2)

compress_address(m, addr_bits) ==
    BitsToNat(CompressLoop(addr_bits, BitNot(m.subnet), {0}, {}))

\* the loop of expand_bits
RECURSIVE ExpandLoop(_, _, _, _)
ExpandLoop(bits, mask, offset, addr_bits) ==
    IF mask = {} THEN addr_bits
    ELSE LET lowest_bit == BitAnd(mask, BitNot(Sub1(mask)))
             addr2 == IF BitAnd(NatToBits(bits), offset) # {}
                      THEN BitOr(addr_bits, lowest_bit) ELSE addr_bits
         IN ExpandLoop(bits, BitXor(mask, lowest_bit), Shl1(offset), addr2)

expand_bits(m, bits) ==
    BitOr(m.subnet, ExpandLoop(bits, BitNot(m.subnet), {0}, {}))

\* while self.blocked.contains(&self.min_free) { self.min_free += 1 }
RECURSIVE AdvanceMinFree(_, _)
AdvanceMinFree(blocked, min_free) ==
    IF min_free \in blocked THEN AdvanceMinFree(blocked, min_free + 1) ELSE min_free

block_NoSubnetTest(m, addr) ==
    LET blocked2 == m.blocked \cup {compress_address(m, addr)}
    IN [m EXCEPT !.blocked = blocked2, !.min_free = AdvanceMinFree(blocked2, m.min_free)]

block_NoAdvance(m, addr) ==
    IF BitAnd(addr, m.netmask) # m.subnet THEN m
    ELSE [m EXCEPT !.blocked = m.blocked \cup {compress_address(m, addr)}]

block(m, addr) ==
    IF BitAnd(addr, m.netmask) # m.subnet THEN m
    ELSE LET to_block == compress_address(m, addr)
             blocked2 == m.blocked \cup {to_block}
         IN [m EXCEPT !.blocked = blocked2,
                      !.min_free = AdvanceMinFree(blocked2, m.min_free)]

release_KeepMinFree(m, addr) ==
    IF BitAnd(addr, m.netmask) # m.subnet THEN m
    ELSE [m EXCEPT !.blocked = m.blocked \ {compress_address(m, addr)}]

release_Forgets(m, addr) == m
release(m, addr) ==
    IF BitAnd(addr, m.netmask) # m.subnet THEN m
    ELSE LET to_unblock == compress_address(m, addr)
         IN IF to_unblock \in m.blocked /\ to_unblock < m.min_free
            THEN [m EXCEPT !.blocked = m.blocked \ {to_unblock}, !.min_free = to_unblock]
            ELSE [m EXCEPT !.blocked = m.blocked \ {to_unblock}]

get_free(m) ==
    IF m.min_free < m.subnet_size THEN Some(expand_bits(m, m.min_free)) ELSE None

(***************************************************************************)
(* The allocator on its own: an IpManager built from a configured address  *)
(* and netmask, then any sequence of block, release and allocate.          *)
(***************************************************************************)

\* the netmasks tried: the prefixes /30, /31 and /32, and non-contiguous
\* patterns with one or two host bits
Netmasks ==
    {Ipv4(255, 255, 255, 252), Ipv4(255, 255, 255, 254), Ipv4(255, 255, 255, 255),
     Ipv4(255, 255, 255, 253), Ipv4(255, 255, 255, 251), Ipv4(255, 255, 255, 250),
     Ipv4(255, 255, 255, 249), Ipv4(255, 255, 255, 245), Ipv4(255, 255, 254, 254)}
\* the configured addresses tried
ConfigAddrs ==
    {Ipv4(10, 0, 0, 0), Ipv4(10, 0, 0, 1), Ipv4(10, 0, 0, 2), Ipv4(10, 0, 0, 6),
     Ipv4(10, 0, 1, 11)}

IsPrefixMask(netmask) == \A i \in netmask : \A j \in BitPos : j > i => j \in netmask

\* the addresses block and release are called with: those of the subnet and
\* those that differ from them in the lowest network bit or in a high bit
InSubnet(m, a) == BitAnd(a, m.netmask) = m.subnet
SubnetAddrs(m) == {BitOr(m.subnet, h) : h \in SUBSET BitNot(m.netmask)}
OpAddrs(m) ==
    SubnetAddrs(m) \cup {BitXor(m.subnet, {LowestPos(m.netmask, 0)}),
                         BitXor(m.subnet, {U32_BITS - 1})}

\* the allocator holds the address as blocked: the test and the index of
\* block and release
IsBlocked(m, a) == InSubnet(m, a) /\ compress_address(m, a) \in m.blocked

\* the state of the parts a specification does not use
IpmUnused ==
    /\ ipm = IpManagerNew({}, BitPos)
    /\ held = {}
    /\ allocs = <<>>
    /\ phase = [op |-> "unused", released |-> None]

RouterUnused ==
    /\ config = [address |-> {}, netmask |-> BitPos, mtu |-> 0]
    /\ ip_manager = IpManagerNew({}, BitPos)
    /\ ipmLock = None
    /\ routes = <<>>
    /\ sess = <<>>
    /\ cleanups = {}
    /\ issued = 0

ConfigUnused == nc = [pc |-> "unused"]

DispatchUnused ==
    /\ router = [pc |-> "unused"]
    /\ sinks = <<>>
    /\ rsess = <<>>
    /\ task = <<>>
    /\ drops = {}
    /\ rhist = [leases |-> 0, packets |-> 0]

ForwardUnused ==
    /\ fsess = <<>>
    /\ ftun = <<>>
    /\ fhist = <<>>

ClientUnused ==
    /\ stop = [value |-> FALSE, version |-> 0]
    /\ pumps = <<>>
    /\ tlsio = <<>>
    /\ tunio = <<>>
    /\ crun = [pc |-> "unused"]
    /\ chist = <<>>

ServerUnused ==
    /\ server = [pc |-> "unused"]
    /\ conn = <<>>
    /\ tunReads = 0

FrameUnused ==
    /\ wire = <<>>
    /\ wclosed = FALSE
    /\ snd = [pc |-> "unused"]
    /\ rcv = [pc |-> "unused"]
    /\ sentLog = <<>>
    /\ recvLog = <<>>

IpmInit ==
    /\ DispatchUnused
    /\ ClientUnused
    /\ ForwardUnused
    /\ RouterUnused
    /\ FrameUnused
    /\ ConfigUnused
    /\ ServerUnused
    /\ \E addr \in ConfigAddrs, netmask \in Netmasks, preblock \in BOOLEAN :
          /\ ipm = IF preblock THEN block(IpManagerNew(addr, netmask), addr)
                   ELSE IpManagerNew(addr, netmask)
          /\ phase = [op |-> IF preblock THEN "gateway" ELSE "new",
                      released |-> None]
    /\ held = {}
    /\ allocs = <<>>

\* the longest run of allocations whose results the history records
MaxAllocs == 8

\* allocate: get_free, then block of the address it returned
Allocate ==
    /\ get_free(ipm) # None
    /\ LET ip == get_free(ipm)[1]
           recorded == phase.op \in {"new", "gateway"} /\ Len(allocs) < MaxAllocs
       IN /\ ipm' = block(ipm, ip)
          /\ held' = held \cup {ip}
          /\ allocs' = IF recorded THEN Append(allocs, ip) ELSE <<>>
          /\ phase' = IF recorded THEN phase ELSE [op |-> "mixed", released |-> None]
    /\ UNCHANGED notIpmVars

IsFullRun == phase.op = "gateway" /\ Len(allocs) = ipm.subnet_size - 1

BlockAddr ==
    \E a \in OpAddrs(ipm) :
        /\ UNCHANGED notIpmVars
        /\ ipm' = block(ipm, a)
        /\ phase' = [op |-> "mixed", released |-> None]
        /\ allocs' = <<>>
        /\ UNCHANGED held

ReleaseAddr ==
    \E a \in OpAddrs(ipm) \cup held :
        /\ UNCHANGED notIpmVars
        /\ ipm' = release(ipm, a)
        /\ held' = held \ {a}
        /\ phase' = IF IsFullRun /\ a \in held
                    THEN [phase EXCEPT !.op = "released", !.released = Some(a)]
                    ELSE [op |-> "mixed", released |-> None]
        /\ allocs' = <<>>

IpmNext == Allocate \/ BlockAddr \/ ReleaseAddr

IpmSpec == IpmInit /\ [][IpmNext]_vars

(***************************************************************************)
(* Claims about the allocator                                              *)
(***************************************************************************)

\* the host index of an address under a prefix netmask: its host part as a number
HostIndex(m, a) == BitsToNat(BitAnd(a, BitNot(m.netmask)))

\* C2: for every netmask, the address the next allocation returns is not held
\* by an outstanding allocation, and it lies in the subnet
C2_UniqueInSubnet ==
    get_free(ipm) # None =>
        /\ get_free(ipm)[1] \notin held
        /\ InSubnet(ipm, get_free(ipm)[1])

\* C2 restricted to prefix netmasks
C2_UniqueInSubnetPrefix == IsPrefixMask(ipm.netmask) => C2_UniqueInSubnet

\* C3: on a fresh IpManager with a prefix netmask and only allocations, the
\* i-th allocation returned host index i, and while fewer than subnet_size
\* allocations were made the next one returns the next host index
C3_DenseAllocation ==
    (phase.op = "new" /\ IsPrefixMask(ipm.netmask)) =>
        /\ \A i \in 1 .. Len(allocs) : HostIndex(ipm, allocs[i]) = i - 1
        /\ \A i \in 1 .. Len(allocs) : InSubnet(ipm, allocs[i])
        /\ Len(allocs) < ipm.subnet_size =>
              /\ get_free(ipm) # None
              /\ HostIndex(ipm, get_free(ipm)[1]) = Len(allocs)

C3_Witness ==
    /\ phase.op = "new"
    /\ IsPrefixMask(ipm.netmask)
    /\ ipm.subnet_size = 4
    /\ Len(allocs) = 4

\* C4: with the gateway blocked and subnet_size - 1 allocations made, get_free
\* is None; after one release of an allocated address get_free is that address
C4_FullSpace ==
    /\ IsFullRun => get_free(ipm) = None
    /\ phase.op = "released" => get_free(ipm) = phase.released

\* C4 restricted to prefix netmasks
C4_FullSpacePrefix == IsPrefixMask(ipm.netmask) => C4_FullSpace

C4_WitnessPrefix ==
    /\ IsPrefixMask(ipm.netmask)
    /\ ipm.subnet_size = 4
    /\ phase.op = "released"

\* the host bits of an address, numbered densely: bit k of the index is the
\* k-th zero bit of the netmask, counted from the least significant bit
Rank(netmask, p) == Cardinality({q \in BitNot(netmask) : q < p})
HostIndexOf(netmask, a) ==
    BitsToNat({Rank(netmask, p) : p \in BitAnd(a, BitNot(netmask))})

\* the smallest non-negative integer that is not in blocked
SmallestFree(m) ==
    CHOOSE n \in 0 .. Cardinality(m.blocked) :
        n \notin m.blocked /\ \A k \in 0 .. (n - 1) : k \in m.blocked

\* C22: after any sequence of block and release, every element of blocked is
\* below subnet_size, min_free is the smallest integer not in blocked (it is
\* subnet_size when every index is blocked), and get_free returns the subnet
\* address with the smallest free host index.
C22_MinFree ==
    /\ \A b \in ipm.blocked : b >= 0 /\ b < ipm.subnet_size
    /\ ipm.min_free = SmallestFree(ipm)
    /\ (\A i \in 0 .. (ipm.subnet_size - 1) : i \in ipm.blocked)
          => ipm.min_free = ipm.subnet_size
    /\ get_free(ipm) # None =>
          /\ InSubnet(ipm, get_free(ipm)[1])
          /\ HostIndexOf(ipm.netmask, get_free(ipm)[1]) = SmallestFree(ipm)

\* C22 restricted to prefix netmasks
C22_MinFreePrefix == IsPrefixMask(ipm.netmask) => C22_MinFree

\* C23: in every state the allocator reaches, block and release of an address
\* outside the subnet change nothing, release of a subnet address that is not
\* blocked changes nothing, block of a blocked address changes nothing, and
\* a second block or release of the same address changes nothing more.
C23_NoOps ==
    \A a \in OpAddrs(ipm) :
        /\ ~InSubnet(ipm, a) => (block(ipm, a) = ipm /\ release(ipm, a) = ipm)
        /\ (InSubnet(ipm, a) /\ ~IsBlocked(ipm, a)) => release(ipm, a) = ipm
        /\ IsBlocked(ipm, a) => block(ipm, a) = ipm
        /\ block(block(ipm, a), a) = block(ipm, a)
        /\ release(release(ipm, a), a) = release(ipm, a)

\* after blocks and releases in any order the allocator holds two blocked
\* addresses and a free one, and addresses outside the subnet were tried
C23_Witness ==
    /\ phase.op = "mixed"
    /\ Cardinality(ipm.blocked) = 2
    /\ \E a \in SubnetAddrs(ipm) : ~IsBlocked(ipm, a)
    /\ \E a \in OpAddrs(ipm) : ~InSubnet(ipm, a)

\* C24: for every netmask and subnet, compress_address and expand_bits are
\* inverse bijections between the host indexes below subnet_size and the
\* addresses of the subnet: compress_address puts the k-th host bit (the k-th
\* zero bit of the netmask from the least significant bit) at bit k of the
\* index, expand_bits(compress_address(a)) = a for every subnet address a, and
\* expand_bits(i) lies in the subnet with compress_address(expand_bits(i)) = i
\* for every i below subnet_size.
C24_Bijection ==
    /\ \A a \in SubnetAddrs(ipm) :
          /\ compress_address(ipm, a) = HostIndexOf(ipm.netmask, a)
          /\ compress_address(ipm, a) < ipm.subnet_size
          /\ expand_bits(ipm, compress_address(ipm, a)) = a
    /\ \A i \in 0 .. (ipm.subnet_size - 1) :
          /\ InSubnet(ipm, expand_bits(ipm, i))
          /\ compress_address(ipm, expand_bits(ipm, i)) = i

\* C24 restricted to prefix netmasks
C24_BijectionPrefix == IsPrefixMask(ipm.netmask) => C24_Bijection

(***************************************************************************)
(* IpManager::new on its own: the arguments are drawn, new is applied, and *)
(* some allocations follow.                                                *)
(***************************************************************************)

\* the netmask of a prefix of n bits
PrefixMask(n) == {i \in BitPos : i >= U32_BITS - n}

\* the netmasks new is called with: every prefix length but 1 (a size of 2^31
\* is beyond the integers of the model checker), 0.0.0.0 and
\* 255.255.255.255 among them, and three non-contiguous netmasks
NewNetmasks ==
    {PrefixMask(n) : n \in (0 .. U32_BITS) \ {1}}
        \cup {Ipv4(255, 255, 255, 253), Ipv4(255, 0, 255, 0), Ipv4(0, 0, 0, 255)}
NewSubnets == {Ipv4(10, 0, 0, 1), Ipv4(192, 168, 255, 254), Ipv4(255, 255, 255, 255)}

NewInit ==
    /\ DispatchUnused
    /\ ClientUnused
    /\ ForwardUnused
    /\ RouterUnused
    /\ FrameUnused
    /\ ConfigUnused
    /\ ServerUnused
    /\ ipm = IpManagerNew({}, BitPos)
    /\ \E subnet \in NewSubnets, netmask \in NewNetmasks :
          phase = [op |-> "construct", released |-> None,
                   subnet |-> subnet, netmask |-> netmask]
    /\ held = {}
    /\ allocs = <<>>

\* IpManager::new(subnet, netmask).  1u32 << count_zeros() with a shift of 32
\* panics when the build checks overflow and wraps the shift amount when it
\* does not
Construct ==
    /\ phase.op = "construct"
    /\ \E overflow_checks \in BOOLEAN :
          IF overflow_checks /\ CountZeros(phase.netmask) >= U32_BITS
          THEN /\ phase' = [phase EXCEPT !.op = "panicked"]
               /\ ipm' = ipm
          ELSE /\ phase' = [phase EXCEPT !.op = "new"]
               /\ ipm' = IpManagerNew(phase.subnet, phase.netmask)
    /\ UNCHANGED <<held, allocs, notIpmVars>>

\* get_free and block of the address it returned, on the IpManager built
AllocateSome ==
    /\ phase.op = "new"
    /\ Len(allocs) < MaxAllocs
    /\ Allocate

NewNext == Construct \/ AllocateSome

NewSpec == NewInit /\ [][NewNext]_vars

\* C25: for every netmask, 0.0.0.0 and 255.255.255.255 included,
\* IpManager::new returns (it does not overflow), the subnet it stores is
\* subnet AND netmask, and the size it stores is 2^popcount(NOT netmask): the
\* only set bit of subnet_size is bit popcount(NOT netmask).
C25_NewSize ==
    phase.op # "construct" =>
        /\ phase.op # "panicked"
        /\ ipm.subnet = BitAnd(phase.subnet, phase.netmask)
        /\ ipm.netmask = phase.netmask
        /\ NatToBits(ipm.subnet_size) = {Cardinality(BitNot(phase.netmask))}

\* C25 for the netmasks with fewer than 32 host bits
C25_NewSizeBelow32 == phase.netmask # {} => C25_NewSize

(***************************************************************************)
(* Router and IpLease (src/src/routing.rs), driven by session tasks.       *)
(* Every await of the source is a step boundary; get_ip holds the          *)
(* ip_manager mutex from its lock().await until it returns.                *)
(***************************************************************************)

\* the session tasks that can run at the same time
MaxSessions == 3
\* the leases handed out in one run
MaxLeases == 3

Sessions == 1 .. MaxSessions

\* the server configurations tried
RouterConfigs ==
    {[address |-> Ipv4(10, 0, 0, 1), netmask |-> Ipv4(255, 255, 255, 0), mtu |-> 1500],
     [address |-> Ipv4(10, 0, 0, 1), netmask |-> Ipv4(255, 255, 255, 252), mtu |-> 1500],
     [address |-> Ipv4(10, 0, 0, 2), netmask |-> Ipv4(255, 255, 255, 252), mtu |-> 1500],
     [address |-> Ipv4(10, 0, 0, 1), netmask |-> Ipv4(255, 255, 255, 254), mtu |-> 576],
     [address |-> Ipv4(10, 0, 0, 0), netmask |-> Ipv4(255, 255, 255, 253), mtu |-> 1500],
     [address |-> Ipv4(10, 0, 0, 1), netmask |-> Ipv4(255, 255, 255, 250), mtu |-> 1500]}

NoSession == [pc |-> "idle", ip |-> None, lease |-> 0]

\* Router::new: the allocator is built from the configured address and netmask
\* and the configured address is blocked
RouterNew_NoBlock(c) == IpManagerNew(c.address, c.netmask)
RouterNew(c) == block(IpManagerNew(c.address, c.netmask), c.address)

RouterInit ==
    /\ DispatchUnused
    /\ ClientUnused
    /\ ForwardUnused
    /\ IpmUnused
    /\ FrameUnused
    /\ ConfigUnused
    /\ ServerUnused
    /\ config \in RouterConfigs
    /\ ip_manager = RouterNew(config)
    /\ ipmLock = None
    /\ routes = <<>>
    /\ sess = [s \in Sessions |-> NoSession]
    /\ cleanups = {}
    /\ issued = 0

\* the mutex is free for a task that asks for it
MutexFree_NoExclusion(lock) == TRUE
MutexFree(lock) == lock = None

\* a connection is accepted and its session task calls Router::get_ip, which
\* starts with self.ip_manager.lock().await (the idle session slots are
\* interchangeable: the lowest one is taken)
GetIpLock(s) ==
    /\ sess[s].pc = "idle"
    /\ \A t \in Sessions : t < s => sess[t].pc # "idle"
    /\ issued < MaxLeases
    /\ MutexFree(ipmLock)
    /\ ipmLock' = Some(s)
    /\ sess' = [sess EXCEPT ![s].pc = "locked"]
    /\ UNCHANGED <<config, ip_manager, routes, cleanups, issued, notRouterVars>>

\* get_ip: lock.get_free(); on None the function returns None and the guard is dropped
GetIpFree(s) ==
    /\ sess[s].pc = "locked"
    /\ IF get_free(ip_manager) = None
       THEN /\ sess' = [sess EXCEPT ![s].pc = "refused"]
            /\ ipmLock' = IF ipmLock = Some(s) THEN None ELSE ipmLock
       ELSE /\ sess' = [sess EXCEPT ![s].pc = "block", ![s].ip = get_free(ip_manager)]
            /\ ipmLock' = ipmLock
    /\ UNCHANGED <<config, ip_manager, routes, cleanups, issued, notRouterVars>>

\* get_ip: lock.block(ip), the IpLease is built and the guard is dropped
GetIpBlock(s) ==
    /\ sess[s].pc = "block"
    /\ ip_manager' = block(ip_manager, sess[s].ip[1])
    /\ issued' = issued + 1
    /\ sess' = [sess EXCEPT ![s].pc = "leased", ![s].lease = issued + 1]
    /\ ipmLock' = IF ipmLock = Some(s) THEN None ELSE ipmLock
    /\ UNCHANGED <<config, routes, cleanups, notRouterVars>>

\* get_ip returned None: the session ends without a lease
Refused(s) ==
    /\ sess[s].pc = "refused"
    /\ sess' = [sess EXCEPT ![s] = NoSession]
    /\ UNCHANGED <<config, ip_manager, ipmLock, routes, cleanups, issued, notRouterVars>>

\* IpLease::set_route: routes.write().await.insert(self.addr, route)
SetRoute(s) ==
    /\ sess[s].pc = "leased"
    /\ routes' = [a \in DOMAIN routes \cup {sess[s].ip[1]} |->
                    IF a = sess[s].ip[1] THEN sess[s].lease ELSE routes[a]]
    /\ sess' = [sess EXCEPT ![s].pc = "bound"]
    /\ UNCHANGED <<config, ip_manager, ipmLock, cleanups, issued, notRouterVars>>

\* the session ends and its IpLease is dropped: drop spawns the cleanup task
DropLease(s) ==
    /\ sess[s].pc \in {"leased", "bound"}
    /\ cleanups' = cleanups \cup
                     {[lease |-> sess[s].lease, addr |-> sess[s].ip[1], pc |-> "remove"]}
    /\ sess' = [sess EXCEPT ![s] = NoSession]
    /\ UNCHANGED <<config, ip_manager, ipmLock, routes, issued, notRouterVars>>

\* cleanup task: router.routes.write().await.remove(&addr)
CleanupRemove(c) ==
    /\ c \in cleanups
    /\ c.pc = "remove"
    /\ routes' = [a \in DOMAIN routes \ {c.addr} |-> routes[a]]
    /\ cleanups' = (cleanups \ {c}) \cup {[c EXCEPT !.pc = "release"]}
    /\ UNCHANGED <<config, ip_manager, ipmLock, sess, issued, notRouterVars>>

\* cleanup task: router.ip_manager.lock().await.release(addr)
CleanupRelease(c) ==
    /\ c \in cleanups
    /\ c.pc = "release"
    /\ MutexFree(ipmLock)
    /\ ip_manager' = release(ip_manager, c.addr)
    /\ cleanups' = cleanups \ {c}
    /\ UNCHANGED <<config, ipmLock, routes, sess, issued, notRouterVars>>

RouterNext ==
    \/ \E s \in Sessions : GetIpLock(s)
    \/ \E s \in Sessions : GetIpFree(s)
    \/ \E s \in Sessions : GetIpBlock(s)
    \/ \E s \in Sessions : Refused(s)
    \/ \E s \in Sessions : SetRoute(s)
    \/ \E s \in Sessions : DropLease(s)
    \/ \E c \in cleanups : CleanupRemove(c)
    \/ \E c \in cleanups : CleanupRelease(c)

RouterSpec == RouterInit /\ [][RouterNext]_vars

(***************************************************************************)
(* Claims about the Router's leases                                        *)
(***************************************************************************)

\* the sessions that hold an IpLease that has not been dropped
LiveLeases == {s \in Sessions : sess[s].pc \in {"leased", "bound"}}

\* C1: with a prefix netmask no two live leases hold the same address, and no
\* live lease holds an address whose previous holder's cleanup has not finished
C1_UniqueLeases ==
    IsPrefixMask(config.netmask) =>
        /\ \A s, t \in LiveLeases : s # t => sess[s].ip # sess[t].ip
        /\ \A s \in LiveLeases : \A c \in cleanups : c.addr # sess[s].ip[1]

C1_Witness ==
    /\ IsPrefixMask(config.netmask)
    /\ Cardinality(LiveLeases) = 2
    /\ \E s \in LiveLeases : sess[s].lease = MaxLeases
    /\ cleanups # {}

\* C5: with gateway 10.0.0.1 and netmask 255.255.255.0 the first lease is
\* 10.0.0.2 and the second, taken while the first is held, is 10.0.0.3; no
\* lease holds the network address
C5_FirstAddresses ==
    (config.address = Ipv4(10, 0, 0, 1) /\ config.netmask = Ipv4(255, 255, 255, 0)) =>
        /\ \A s \in LiveLeases : sess[s].lease = 1 => sess[s].ip[1] = Ipv4(10, 0, 0, 2)
        /\ \A s, t \in LiveLeases :
              (sess[s].lease = 1 /\ sess[t].lease = 2) => sess[t].ip[1] = Ipv4(10, 0, 0, 3)
        /\ \A s \in LiveLeases : sess[s].ip[1] # config.address
        /\ \A s \in LiveLeases : sess[s].ip[1] # ip_manager.subnet

\* C6: at most subnet_size - 1 sessions hold a lease at a time, and when that
\* many do the allocator has no free address for the next acquire
C6_Exhaustion ==
    /\ Cardinality(LiveLeases) <= ip_manager.subnet_size - 1
    /\ Cardinality(LiveLeases) = ip_manager.subnet_size - 1 => get_free(ip_manager) = None

\* C6 restricted to prefix netmasks
C6_ExhaustionPrefix == IsPrefixMask(config.netmask) => C6_Exhaustion

\* C21: the gateway (the configured address) is blocked in the allocator from
\* Router::new on and stays blocked: get_ip never returns it, no lease and no
\* cleanup task holds it, and routes has no entry for it.
C21_GatewayBlocked ==
    /\ IsBlocked(ip_manager, config.address)
    /\ get_free(ip_manager) # Some(config.address)
    /\ \A s \in Sessions : sess[s].ip # Some(config.address)
    /\ \A c \in cleanups : c.addr # config.address
    /\ config.address \notin DOMAIN routes

\* every lease of the run was handed out, two of them were dropped and cleaned
\* up, and the third is bound
C21_Witness ==
    /\ issued = MaxLeases
    /\ cleanups = {}
    /\ Cardinality(LiveLeases) = 1
    /\ \A s \in Sessions : sess[s].pc \in {"idle", "bound"}
    /\ DOMAIN routes # {}

\* C31: every address that has a route entry is blocked in the allocator; a
\* lease that has not bound its sink yet finds no entry for its address (the
\* cleanup of the previous lease removed it before the address was released),
\* and every entry belongs to a live lease or to a dropped lease whose cleanup
\* has not yet removed it.
C31_RoutedIsBlocked ==
    /\ \A a \in DOMAIN routes : IsBlocked(ip_manager, a)
    /\ \A s \in Sessions : sess[s].pc = "leased" => sess[s].ip[1] \notin DOMAIN routes
    /\ \A a \in DOMAIN routes :
          \/ \E s \in LiveLeases : sess[s].ip[1] = a /\ sess[s].lease = routes[a]
          \/ \E c \in cleanups : c.addr = a /\ c.lease = routes[a] /\ c.pc = "remove"

\* C31 restricted to prefix netmasks
C31_RoutedIsBlockedPrefix == IsPrefixMask(config.netmask) => C31_RoutedIsBlocked

(***************************************************************************)
(* The packet codec (src/src/packet_stream/tagged.rs, util.rs) over an     *)
(* in-memory byte stream.  Each write and each read of the stream is a     *)
(* step and moves a number of bytes the stream chooses.                    *)
(***************************************************************************)

U16_MAX == 65535
BYTE_RANGE == 256

\* u16::to_le_bytes and u16::from_le_bytes
ToLeBytes_BigEndian(val) == <<val \div BYTE_RANGE, val % BYTE_RANGE>>
ToLeBytes(val) == <<val % BYTE_RANGE, val \div BYTE_RANGE>>
FromLeBytes(bytes) == bytes[1] + BYTE_RANGE * bytes[2]

\* u16::try_from(packet.len()) is Ok
FitsU16_Always(n) == TRUE
FitsU16(n) == n <= U16_MAX

\* the payloads tried: every sequence of at most MaxLen bytes over PayloadBytes,
\* two whose length needs the high length byte, and one longer than a u16 holds
MaxLen == 1
PayloadBytes == {0, 1}
ShortPayloads == UNION {[1 .. n -> PayloadBytes] : n \in 0 .. MaxLen}
LongPayloads == {[i \in 1 .. 258 |-> i % BYTE_RANGE]}
HugePayload == [i \in 1 .. U16_MAX + 1 |-> 0]
Payloads == ShortPayloads \cup LongPayloads \cup {HugePayload}

\* the calls of send in one run
MaxFrames == 2

\* how many of at most n bytes one write or read moves: one byte at a time for
\* short transfers, all of them, or half of them
SmallTransfer == 2
Chunks(n) == {k \in 1 .. n : k = n \/ k = (n + 1) \div 2 \/ (n <= SmallTransfer /\ k = 1)}

Take(seq, n) == SubSeq(seq, 1, n)
Drop(seq, n) == SubSeq(seq, n + 1, Len(seq))

FrameInit ==
    /\ DispatchUnused
    /\ ClientUnused
    /\ ForwardUnused
    /\ IpmUnused
    /\ RouterUnused
    /\ ConfigUnused
    /\ ServerUnused
    /\ wire = <<>>
    /\ wclosed = FALSE
    /\ snd = [pc |-> "idle", packet |-> <<>>, offset |-> 0, result |-> "none", calls |-> 0,
              last_len |-> 0, wrote |-> 0]
    /\ rcv = [pc |-> "len", bytes |-> <<>>, packet_size |-> 0, packet |-> <<>>,
              result |-> "none"]
    /\ sentLog = <<>>
    /\ recvLog = <<>>

\* send: the length check; a packet that does not fit returns FileTooLarge
SendCall ==
    \E p \in Payloads :
        /\ snd.pc = "idle"
        /\ snd.calls < MaxFrames
        /\ IF FitsU16(Len(p))
           THEN /\ snd' = [snd EXCEPT !.pc = "len", !.packet = p, !.offset = 0,
                                      !.result = "pending", !.calls = @ + 1,
                                      !.last_len = Len(p), !.wrote = 0]
                /\ sentLog' = Append(sentLog, p)
           ELSE /\ snd' = [snd EXCEPT !.result = "FileTooLarge", !.calls = @ + 1,
                                      !.last_len = Len(p), !.wrote = 0]
                /\ sentLog' = sentLog
        /\ UNCHANGED <<wire, wclosed, rcv, recvLog, notFrameVars>>

\* send: self.stream.write_u16(packet_size), a write_all of the two length bytes
WriteLen ==
    /\ snd.pc = "len"
    /\ ~wclosed
    /\ \E n \in Chunks(2 - snd.offset) :
          /\ wire' = wire \o SubSeq(ToLeBytes(Len(snd.packet) % (U16_MAX + 1)),
                                    snd.offset + 1, snd.offset + n)
          /\ snd' = IF snd.offset + n = 2
                    THEN [snd EXCEPT !.pc = "payload", !.offset = 0, !.wrote = @ + n]
                    ELSE [snd EXCEPT !.offset = @ + n, !.wrote = @ + n]
    /\ UNCHANGED <<wclosed, rcv, sentLog, recvLog, notFrameVars>>

\* send: the loop of self.stream.write(&packet[offset..])
WritePayload ==
    /\ snd.pc = "payload"
    /\ snd.offset < Len(snd.packet)
    /\ ~wclosed
    /\ \E n \in Chunks(Len(snd.packet) - snd.offset) :
          /\ wire' = wire \o SubSeq(snd.packet, snd.offset + 1, snd.offset + n)
          /\ snd' = [snd EXCEPT !.offset = @ + n, !.wrote = @ + n]
    /\ UNCHANGED <<wclosed, rcv, sentLog, recvLog, notFrameVars>>

\* send: the loop is over, self.stream.flush() and Ok(())
Flush ==
    /\ snd.pc = "payload"
    /\ snd.offset >= Len(snd.packet)
    /\ ~wclosed
    /\ snd' = [snd EXCEPT !.pc = "idle", !.result = "Ok", !.packet = <<>>, !.offset = 0]
    /\ UNCHANGED <<wire, wclosed, rcv, sentLog, recvLog, notFrameVars>>

\* send on a stream that has ended: the write or the flush returns its error
WriteError ==
    /\ snd.pc \in {"len", "payload"}
    /\ wclosed
    /\ snd' = [snd EXCEPT !.pc = "failed", !.result = "IoError"]
    /\ UNCHANGED <<wire, wclosed, rcv, sentLog, recvLog, notFrameVars>>

\* the stream ends: the writing side is closed or the connection is lost
CloseStream ==
    /\ ~wclosed
    /\ snd.pc # "unused"
    /\ wclosed' = TRUE
    /\ UNCHANGED <<wire, snd, rcv, sentLog, recvLog, notFrameVars>>

\* receive: self.stream.read_u16(), a read_exact of two bytes
ReadLen ==
    /\ rcv.pc = "len"
    /\ wire # <<>>
    /\ \E n \in Chunks(IF Len(wire) < 2 - Len(rcv.bytes) THEN Len(wire)
                       ELSE 2 - Len(rcv.bytes)) :
          LET got == rcv.bytes \o Take(wire, n) IN
          /\ wire' = Drop(wire, n)
          /\ rcv' = IF Len(got) = 2
                    THEN [rcv EXCEPT !.pc = "payload", !.bytes = <<>>,
                                     !.packet_size = FromLeBytes(got), !.packet = <<>>]
                    ELSE [rcv EXCEPT !.bytes = got]
    /\ UNCHANGED <<wclosed, snd, sentLog, recvLog, notFrameVars>>

\* receive: the loop of self.stream.read(&mut packet[offset..])
ReadPayload ==
    /\ rcv.pc = "payload"
    /\ Len(rcv.packet) < rcv.packet_size
    /\ wire # <<>>
    /\ \E n \in Chunks(IF Len(wire) < rcv.packet_size - Len(rcv.packet) THEN Len(wire)
                       ELSE rcv.packet_size - Len(rcv.packet)) :
          /\ wire' = Drop(wire, n)
          /\ rcv' = [rcv EXCEPT !.packet = @ \o Take(wire, n)]
    /\ UNCHANGED <<wclosed, snd, sentLog, recvLog, notFrameVars>>

\* receive: the loop is over, Ok(packet); the caller calls receive again
ReceiveOk ==
    /\ rcv.pc = "payload"
    /\ Len(rcv.packet) >= rcv.packet_size
    /\ recvLog' = Append(recvLog, rcv.packet)
    /\ rcv' = [rcv EXCEPT !.pc = "len", !.packet = <<>>, !.packet_size = 0,
                          !.result = "Ok"]
    /\ UNCHANGED <<wire, wclosed, snd, sentLog, notFrameVars>>

\* what receive returns when a read finds the stream at its end
EofResult_OkPartial == "Ok"
EofResult == "UnexpectedEof"

\* receive: a read returns 0 bytes (read_exact fails, or received == 0)
ReadEof ==
    /\ \/ rcv.pc = "len"
       \/ rcv.pc = "payload" /\ Len(rcv.packet) < rcv.packet_size
    /\ wire = <<>>
    /\ wclosed
    /\ rcv' = [rcv EXCEPT !.pc = "failed", !.result = EofResult]
    /\ recvLog' = IF EofResult = "Ok" THEN Append(recvLog, rcv.packet) ELSE recvLog
    /\ UNCHANGED <<wire, wclosed, snd, sentLog, notFrameVars>>

FrameNext ==
    \/ SendCall
    \/ WriteLen
    \/ WritePayload
    \/ Flush
    \/ WriteError
    \/ CloseStream
    \/ ReadLen
    \/ ReadPayload
    \/ ReceiveOk
    \/ ReadEof

FrameSpec == FrameInit /\ [][FrameNext]_vars

(***************************************************************************)
(* The packet codec: claims C7 and C8.                                     *)
(***************************************************************************)

IsPrefix(a, b) == Len(a) <= Len(b) /\ a = SubSeq(b, 1, Len(a))

\* one frame on the wire: the length, low byte first, and then the payload
Frame(p) == <<Len(p) % 256, Len(p) \div 256>> \o p

RECURSIVE FramesFrom(_, _)
FramesFrom(log, i) == IF i > Len(log) THEN <<>> ELSE Frame(log[i]) \o FramesFrom(log, i + 1)

\* the bytes of the frame in progress that receive has taken off the stream
Consumed ==
    IF rcv.pc = "payload"
    THEN <<rcv.packet_size % 256, rcv.packet_size \div 256>> \o rcv.packet
    ELSE rcv.bytes

\* the stream holds the frames of the accepted payloads, in order, and nothing
\* else; once send has returned Ok, it holds all of them
StreamIsFrames ==
    rcv.pc # "failed" =>
        /\ IsPrefix(Consumed \o wire, FramesFrom(sentLog, Len(recvLog) + 1))
        /\ snd.pc = "idle" => Consumed \o wire = FramesFrom(sentLog, Len(recvLog) + 1)

\* C7: every payload of length 0 .. 65535 that send wrote as a 2-byte
\* little-endian length followed by the payload is returned by receive exactly,
\* whatever the reads return, and the frames come back in the order sent; when
\* the stream ends inside the length field or the payload, receive fails with
\* UnexpectedEof and returns no packet.
C7_FramingRoundTrip ==
    /\ IsPrefix(recvLog, sentLog)
    /\ StreamIsFrames
    /\ (snd.pc = "idle" /\ wire = <<>> /\ rcv.pc = "len" /\ rcv.bytes = <<>>)
          => recvLog = sentLog
    /\ rcv.pc = "failed" => rcv.result = "UnexpectedEof" /\ wclosed /\ wire = <<>>

\* two frames were sent, the first longer than one length byte can count; the
\* first came back and the stream ended inside the payload of the second
C7_Witness ==
    /\ Len(sentLog) = 2
    /\ Len(recvLog) = 1
    /\ Len(recvLog[1]) > 255
    /\ recvLog[1] = sentLog[1]
    /\ rcv.pc = "failed"
    /\ rcv.result = "UnexpectedEof"
    /\ rcv.packet # <<>>

\* the last call of send was given more than 65535 bytes
Oversized == snd.last_len > U16_MAX

\* the call returned at the length check and left the stream as it was
RejectedUnwritten(error) ==
    Oversized => snd.result = error /\ snd.wrote = 0 /\ snd.pc = "idle"

\* C8 as stated: send with a payload longer than 65535 bytes fails with
\* PayloadTooLarge before writing anything, and the stream keeps its framing.
C8_PayloadTooLarge ==
    /\ RejectedUnwritten("PayloadTooLarge")
    /\ \A i \in 1 .. Len(sentLog) : Len(sentLog[i]) <= U16_MAX
    /\ StreamIsFrames

\* C8 amended: send with a payload longer than 65535 bytes fails with
\* io::ErrorKind::FileTooLarge before writing anything: no length byte and no
\* payload byte reaches the stream, and the stream keeps its framing for the
\* sends that follow.
C8_FileTooLarge ==
    /\ RejectedUnwritten("FileTooLarge")
    /\ \A i \in 1 .. Len(sentLog) : Len(sentLog[i]) <= U16_MAX
    /\ StreamIsFrames
    /\ snd.result = "FileTooLarge" => snd.wrote = 0

\* an oversized payload was rejected after a frame had been sent, and that
\* frame was received whole
C8_Witness ==
    /\ Oversized
    /\ snd.result = "FileTooLarge"
    /\ Len(sentLog) = 1
    /\ recvLog = sentLog
    /\ wire = <<>>

(***************************************************************************)
(* NetworkConfig and its byte form (src/src/protocol/network_config.rs)    *)
(***************************************************************************)

BYTE_SIZE == 14

\* Ipv4Addr::from_octets
FromOctets(o) == Ipv4(o[1], o[2], o[3], o[4])

\* From<NetworkConfig> for [u8; BYTE_SIZE]
NetworkConfigToBytes_BigEndianMtu(value) ==
    Octets(value.client_ip) \o Octets(value.server_ip) \o Octets(value.netmask)
        \o ToLeBytes_BigEndian(value.mtu)
NetworkConfigToBytes(value) ==
    Octets(value.client_ip) \o Octets(value.server_ip) \o Octets(value.netmask)
        \o ToLeBytes(value.mtu)

\* From<&[u8; BYTE_SIZE]> for NetworkConfig
NetworkConfigFromBytes(bytes) ==
    [client_ip |-> FromOctets(SubSeq(bytes, 1, 4)),
     server_ip |-> FromOctets(SubSeq(bytes, 5, 8)),
     netmask |-> FromOctets(SubSeq(bytes, 9, 12)),
     mtu |-> FromLeBytes(SubSeq(bytes, 13, 14))]

\* TryFrom<&[u8]> for NetworkConfig: Ok(config), or the error of a slice that
\* is not BYTE_SIZE long
NetworkConfigTryFrom(value) ==
    IF Len(value) = BYTE_SIZE
    THEN [ok |-> TRUE, config |-> Some(NetworkConfigFromBytes(value))]
    ELSE [ok |-> FALSE, config |-> None]

\* the configs tried
ConfigIps ==
    {Ipv4(0, 0, 0, 0), Ipv4(10, 0, 0, 2), Ipv4(192, 168, 1, 254), Ipv4(1, 2, 3, 4),
     Ipv4(255, 255, 255, 255)}
ConfigMasks == {Ipv4(255, 255, 255, 0), Ipv4(255, 255, 255, 252), Ipv4(0, 0, 0, 0)}
ConfigMtus == {0, 1, 255, 256, 576, 1500, U16_MAX}
NetworkConfigs ==
    [client_ip : ConfigIps, server_ip : {Ipv4(10, 0, 0, 1), Ipv4(4, 3, 2, 1)},
     netmask : ConfigMasks, mtu : ConfigMtus]

\* slices handed to try_from: the encoded bytes cut short, whole, or followed by
\* up to MaxExtra more bytes
MaxExtra == 1
SliceOf(bytes, n) ==
    IF n <= Len(bytes) THEN Take(bytes, n) ELSE bytes \o [i \in 1 .. n - Len(bytes) |-> 0]

ConfigInit ==
    /\ DispatchUnused
    /\ ClientUnused
    /\ ForwardUnused
    /\ IpmUnused
    /\ RouterUnused
    /\ FrameUnused
    /\ ServerUnused
    /\ \E c \in NetworkConfigs :
          nc = [pc |-> "config", config |-> c, bytes |-> <<>>, slice |-> <<>>,
                decoded |-> None, ok |-> FALSE]

\* config.into()
EncodeConfig ==
    /\ nc.pc = "config"
    /\ nc' = [nc EXCEPT !.pc = "bytes", !.bytes = NetworkConfigToBytes(nc.config)]
    /\ UNCHANGED notConfigVars

\* (&config_bytes).into()
DecodeConfig ==
    /\ nc.pc = "bytes"
    /\ nc' = [nc EXCEPT !.pc = "decoded", !.slice = nc.bytes, !.ok = TRUE,
                        !.decoded = Some(NetworkConfigFromBytes(nc.bytes))]
    /\ UNCHANGED notConfigVars

\* NetworkConfig::try_from(slice)
TryDecodeConfig ==
    /\ nc.pc = "bytes"
    /\ \E n \in 0 .. BYTE_SIZE + MaxExtra :
          LET slice == SliceOf(nc.bytes, n)
              res == NetworkConfigTryFrom(slice)
          IN nc' = [nc EXCEPT !.pc = "tried", !.slice = slice, !.ok = res.ok,
                              !.decoded = res.config]
    /\ UNCHANGED notConfigVars

ConfigNext ==
    \/ EncodeConfig
    \/ DecodeConfig
    \/ TryDecodeConfig

ConfigSpec == ConfigInit /\ [][ConfigNext]_vars

\* C9: a NetworkConfig encodes to exactly 14 bytes, decoding those bytes gives
\* the same client_ip, server_ip, netmask and mtu, and decoding a slice whose
\* length is not 14 fails and gives no config.
C9_ConfigRoundTrip ==
    /\ nc.pc \in {"bytes", "decoded", "tried"} =>
          /\ Len(nc.bytes) = 14
          /\ \A i \in 1 .. Len(nc.bytes) : nc.bytes[i] \in 0 .. 255
    /\ nc.pc = "decoded" => nc.decoded = Some(nc.config)
    /\ nc.pc = "tried" =>
          IF Len(nc.slice) = 14
          THEN nc.ok /\ nc.decoded = Some(nc.config)
          ELSE ~nc.ok /\ nc.decoded = None

\* a config whose mtu needs both bytes came back from its 14 bytes
C9_Witness ==
    /\ nc.pc = "decoded"
    /\ nc.config.mtu = 1500
    /\ nc.config.client_ip = Ipv4(192, 168, 1, 254)
    /\ nc.bytes = <<192, 168, 1, 254, 10, 0, 0, 1, 255, 255, 255, 252, 220, 5>>
    /\ nc.decoded = Some(nc.config)

(***************************************************************************)
(* Server and the client's side of a connection (src/src/server.rs,        *)
(* src/src/client.rs): handle_client sends the network configuration,      *)
(* installs the route and forwards; route_incoming sends TUN packets along *)
(* the routes; the client's configure_tun reads the configuration.         *)
(***************************************************************************)

CONFIGURATION_SIZE == 14

MaxConns == 2
MaxTunReads == 2
Conns == 1 .. MaxConns

ServerConfigs ==
    {[virtual_address |-> Ipv4(10, 0, 0, 1), subnet_mask |-> Ipv4(255, 255, 255, 252),
      mtu |-> 1500],
     [virtual_address |-> Ipv4(10, 0, 0, 1), subnet_mask |-> Ipv4(255, 255, 255, 254),
      mtu |-> 576]}

\* Server::try_new
ServerTryNew(c) ==
    [ip_manager |-> block(IpManagerNew(c.virtual_address, c.subnet_mask), c.virtual_address),
     gateway |-> c.virtual_address,
     netmask |-> c.subnet_mask,
     mtu |-> c.mtu,
     routes |-> <<>>]

NoConn ==
    [pc |-> "idle", ip |-> None, out |-> <<>>, client |-> "connect", read |-> 0,
     cfg_at |-> 0, cfg |-> None]

ServerInit ==
    /\ DispatchUnused
    /\ ClientUnused
    /\ ForwardUnused
    /\ IpmUnused
    /\ RouterUnused
    /\ FrameUnused
    /\ ConfigUnused
    /\ \E c \in ServerConfigs : server = ServerTryNew(c)
    /\ conn = [s \in Conns |-> NoConn]
    /\ tunReads = 0

\* handle_client: network_info, the CONFIGURATION_SIZE bytes of the configuration
network_info(ip) ==
    Octets(ip) \o Octets(server.gateway) \o Octets(server.netmask) \o ToLeBytes(server.mtu)

\* HashMap::insert
RouteInsert(map, ip, s) ==
    [a \in DOMAIN map \cup {ip} |-> IF a = ip THEN s ELSE map[a]]

\* run: listener.accept() and the spawned handle_client up to the TLS accept
AcceptClient(s) ==
    /\ conn[s].pc = "idle"
    /\ \A t \in Conns : t < s => conn[t].pc # "idle"
    /\ conn' = [conn EXCEPT ![s].pc = "get_ip", ![s].client = "configure_tun"]
    /\ UNCHANGED <<server, tunReads, notServerVars>>

\* handle_client: self.get_ip().await?
HandleGetIp(s) ==
    /\ conn[s].pc = "get_ip"
    /\ LET free == get_free(server.ip_manager) IN
       IF free = None
       THEN /\ conn' = [conn EXCEPT ![s].pc = "done"]
            /\ server' = server
       ELSE /\ server' = [server EXCEPT !.ip_manager = block(@, free[1])]
            /\ conn' = [conn EXCEPT ![s].pc = "send_len", ![s].ip = free]
    /\ UNCHANGED <<tunReads, notServerVars>>

\* handle_client: packet_sender.send(&network_info), the write of the length
SendConfigLen(s) ==
    /\ conn[s].pc = "send_len"
    /\ conn' = [conn EXCEPT ![s].pc = "send_packet",
                            ![s].out = @ \o ToLeBytes(Len(network_info(conn[s].ip[1])))]
    /\ UNCHANGED <<server, tunReads, notServerVars>>

\* handle_client: packet_sender.send(&network_info), the write of the bytes
SendConfigPacket(s) ==
    /\ conn[s].pc = "send_packet"
    /\ conn' = [conn EXCEPT ![s].pc = "insert",
                            ![s].out = @ \o network_info(conn[s].ip[1])]
    /\ UNCHANGED <<server, tunReads, notServerVars>>

\* handle_client: send returned Err: release(ip) and return
SendConfigErr(s) ==
    /\ conn[s].pc \in {"send_len", "send_packet"}
    /\ server' = [server EXCEPT !.ip_manager = release(@, conn[s].ip[1])]
    /\ conn' = [conn EXCEPT ![s].pc = "done"]
    /\ UNCHANGED <<tunReads, notServerVars>>

\* handle_client: self.routes.lock().await.insert(ip, packet_sender)
InsertRoute(s) ==
    /\ conn[s].pc = "insert"
    /\ server' = [server EXCEPT !.routes = RouteInsert(@, conn[s].ip[1], s)]
    /\ conn' = [conn EXCEPT ![s].pc = "forward"]
    /\ UNCHANGED <<tunReads, notServerVars>>

\* handle_client: forward_packets returned; release(ip)
ForwardEnd(s) ==
    /\ conn[s].pc = "forward"
    /\ server' = [server EXCEPT !.ip_manager = release(@, conn[s].ip[1])]
    /\ conn' = [conn EXCEPT ![s].pc = "done"]
    /\ UNCHANGED <<tunReads, notServerVars>>

\* a packet read from the TUN: its destination and its bytes
TunPacket(destination) == <<69, 0, 0, 8>> \o Octets(destination)

\* route_incoming: one packet from the TUN, route_packet, route.send(&packet)
ServerRouteIncoming ==
    /\ tunReads < MaxTunReads
    /\ tunReads' = tunReads + 1
    /\ \E destination \in SubnetAddrs(server.ip_manager) :
          IF destination \in DOMAIN server.routes
          THEN LET s == server.routes[destination]
                   packet == TunPacket(destination)
               IN conn' = [conn EXCEPT ![s].out = @ \o ToLeBytes(Len(packet)) \o packet]
          ELSE conn' = conn
    /\ UNCHANGED <<server, notServerVars>>

\* the frame at offset read of the bytes written to connection s, once the
\* whole of it is there: TaggedPacketReceiver::receive
FrameAt(bytes, read) ==
    IF Len(bytes) < read + 2 THEN None
    ELSE LET packet_size == FromLeBytes(SubSeq(bytes, read + 1, read + 2)) IN
         IF Len(bytes) < read + 2 + packet_size THEN None
         ELSE Some(SubSeq(bytes, read + 3, read + 2 + packet_size))

\* client: configure_tun
ConfigureTun(s) ==
    /\ conn[s].client = "configure_tun"
    /\ LET got == FrameAt(conn[s].out, conn[s].read) IN
       /\ got # None
       /\ IF Len(got[1]) = CONFIGURATION_SIZE
          THEN conn' = [conn EXCEPT ![s].client = "tun",
                                    ![s].cfg_at = conn[s].read + 2,
                                    ![s].read = @ + 2 + Len(got[1]),
                                    ![s].cfg = Some(NetworkConfigFromBytes(got[1]))]
          ELSE conn' = [conn EXCEPT ![s].client = "failed",
                                    ![s].read = @ + 2 + Len(got[1])]
    /\ UNCHANGED <<server, tunReads, notServerVars>>

ServerNext ==
    \/ \E s \in Conns : AcceptClient(s)
    \/ \E s \in Conns : HandleGetIp(s)
    \/ \E s \in Conns : SendConfigLen(s)
    \/ \E s \in Conns : SendConfigPacket(s)
    \/ \E s \in Conns : SendConfigErr(s)
    \/ \E s \in Conns : InsertRoute(s)
    \/ \E s \in Conns : ForwardEnd(s)
    \/ ServerRouteIncoming
    \/ \E s \in Conns : ConfigureTun(s)

ServerSpec == ServerInit /\ [][ServerNext]_vars

\* the NetworkConfig of connection s as its 14 bytes
ConfigFrame(s) ==
    NetworkConfigToBytes([client_ip |-> conn[s].ip[1], server_ip |-> server.gateway,
                          netmask |-> server.netmask, mtu |-> server.mtu])

HasRoute(s) == \E a \in DOMAIN server.routes : server.routes[a] = s

\* C10: on every connection the first 14 bytes the server writes are the
\* NetworkConfig with no length prefix, the client takes the first 14 bytes it
\* reads as the config, and the route of the client is installed, and a framed
\* packet written to it, only after the config has been sent.
C10_ConfigFirst ==
    \A s \in Conns :
        /\ \A i \in 1 .. Len(conn[s].out) : i <= 14 => conn[s].out[i] = ConfigFrame(s)[i]
        /\ conn[s].client = "tun" =>
              /\ conn[s].cfg_at = 0
              /\ conn[s].cfg = Some(NetworkConfigFromBytes(SubSeq(conn[s].out, 1, 14)))
        /\ HasRoute(s) => Len(conn[s].out) >= 14 /\ conn[s].pc \in {"forward", "done"}

\* the part of C10 the server keeps: the configuration is the first thing
\* written to a client, and the client has no route before it is written whole
C10_RouteAfterConfig ==
    \A s \in Conns :
        /\ conn[s].ip = None => conn[s].out = <<>> /\ ~HasRoute(s)
        /\ conn[s].ip # None =>
              /\ IsPrefix(conn[s].out, <<14, 0>> \o ConfigFrame(s))
                    \/ IsPrefix(<<14, 0>> \o ConfigFrame(s), conn[s].out)
              /\ HasRoute(s) => IsPrefix(<<14, 0>> \o ConfigFrame(s), conn[s].out)
        /\ conn[s].client = "tun" => conn[s].cfg_at = 2

\* the sessions that have ended after an address was assigned to them
EndedSessions == {s \in Conns : conn[s].pc = "done" /\ conn[s].ip # None}

\* the address is assigned to a session that has not ended
HeldByLive(a) == \E t \in Conns : conn[t].pc # "done" /\ conn[t].ip = Some(a)

\* C32: when a session has ended, for whatever reason, its address is free in
\* the allocator (or assigned anew to a session that lives) and routes holds
\* no entry for the session.
C32_EndedSessionCleared ==
    \A s \in EndedSessions :
        /\ ~HeldByLive(conn[s].ip[1]) => ~IsBlocked(server.ip_manager, conn[s].ip[1])
        /\ ~HasRoute(s)

\* the part of C32 about the allocator
C32_EndedSessionReleased ==
    \A s \in EndedSessions :
        ~HeldByLive(conn[s].ip[1]) => ~IsBlocked(server.ip_manager, conn[s].ip[1])

(***************************************************************************)
(* The Router's dispatch (src/src/routing.rs): route_local, route_packet,  *)
(* route_incoming, and the IpLease life cycle around them.  Task 0 is the  *)
(* TUN-ingress task (route_incoming); task s >= 1 is the session task of   *)
(* client s, which acquires a lease, binds its sink and then passes each   *)
(* packet it receives to route_packet.                                     *)
(***************************************************************************)

MaxClients == 2
MaxAcquires == 2
MaxPackets == 2

Clients == 1 .. MaxClients
TunIngress == 0
Tasks == {TunIngress} \cup Clients

DispatchConfigs ==
    {[address |-> Ipv4(10, 0, 0, 1), netmask |-> Ipv4(255, 255, 255, 252), mtu |-> 1500],
     [address |-> Ipv4(10, 0, 0, 0), netmask |-> Ipv4(255, 255, 255, 253), mtu |-> 1500]}

\* the packets dispatched: IPv4 packets to two addresses, an IPv6 packet and
\* bytes that are no IP packet (the IP header is cut down to the version byte,
\* three more bytes and the destination address)
DispatchPackets ==
    {TunPacket(Ipv4(10, 0, 0, 0)), TunPacket(Ipv4(10, 0, 0, 1)),
     <<96, 0, 0, 0, 0, 0, 0, 1>>, <<0, 1>>}

\* IpSlice::from_slice and destination_addr
IpVersion(packet) == IF packet = <<>> THEN 0 ELSE packet[1] \div 16
IsIpSlice(packet) ==
    \/ IpVersion(packet) = 4 /\ Len(packet) >= 8
    \/ IpVersion(packet) = 6 /\ Len(packet) >= 8
Destination_SourceAddr(packet) == FromOctets(SubSeq(packet, 1, 4))
Destination(packet) == FromOctets(SubSeq(packet, 5, 8))

\* route_local up to the lookup in routes
LocalOutcome(packet) ==
    IF ~IsIpSlice(packet) THEN "NotIP"
    ELSE IF IpVersion(packet) # 4 THEN "NoIPv4"
    ELSE IF Destination(packet) \notin DOMAIN router.routes THEN "NoRoute"
    ELSE "Route"

NoTask ==
    [pc |-> "idle", packet |-> <<>>, sink |-> 0, offset |-> 0, stale |-> FALSE,
     ended |-> FALSE]
NoRSession == [pc |-> "idle", ip |-> None, lease |-> 0]
NewSink == [lock |-> None, out |-> <<>>, broken |-> FALSE, grants |-> <<>>]

DispatchInit ==
    /\ ClientUnused
    /\ ForwardUnused
    /\ IpmUnused
    /\ RouterUnused
    /\ FrameUnused
    /\ ConfigUnused
    /\ ServerUnused
    /\ \E c \in DispatchConfigs :
          router = [config |-> c, ip_manager |-> RouterNew(c), routes |-> <<>>,
                    tun_writer |-> [lock |-> None, out |-> <<>>, grants |-> <<>>]]
    /\ sinks = <<>>
    /\ rsess = [s \in Clients |-> NoRSession]
    /\ task = [t \in Tasks |-> NoTask]
    /\ drops = {}
    /\ rhist = [leases |-> 0, packets |-> 0, read |-> "none"]

\* the tasks that hold a read guard of routes: route_local from routes.read()
\* to its return
ReadLocked_ThroughTun ==
    {t \in DOMAIN task : task[t].pc \in {"sink_lock", "send", "tun_lock", "tun_write"}}
ReadLocked == {t \in DOMAIN task : task[t].pc \in {"sink_lock", "send"}}

\* routes.write().await is granted
WriteGranted == ReadLocked = {}

\* a Mutex (a sink's, or tun_writer) is granted
SinkLockFree_NoExclusion(lock) == TRUE
SinkLockFree(lock) == lock = None

\* the IpLease with this number has been dropped
LeaseDropped(k) == \A s \in Clients : rsess[s].lease # k

\* Router::get_ip: lock, get_free, block, IpLease
Acquire(s) ==
    /\ rsess[s].pc = "idle"
    /\ rhist.leases < MaxAcquires
    /\ LET ip == get_free(router.ip_manager) IN
       /\ ip # None
       /\ router' = [router EXCEPT !.ip_manager = block(@, ip[1])]
       /\ rsess' = [rsess EXCEPT ![s] = [pc |-> "leased", ip |-> ip,
                                         lease |-> rhist.leases + 1]]
    /\ rhist' = [rhist EXCEPT !.leases = @ + 1]
    /\ UNCHANGED <<sinks, task, drops, notDispatchVars>>

\* the sinks the map owns
Routed(map) == {map[a] : a \in DOMAIN map}

\* IpLease::set_route: routes.write().await.insert(self.addr, route.into());
\* a sink the insert replaces is dropped
Bind(s) ==
    /\ rsess[s].pc = "leased"
    /\ WriteGranted
    /\ router' = [router EXCEPT !.routes = RouteInsert(@, rsess[s].ip[1], rsess[s].lease)]
    /\ sinks' = [k \in Routed(router'.routes) |->
                    IF k = rsess[s].lease THEN NewSink ELSE sinks[k]]
    /\ rsess' = [rsess EXCEPT ![s].pc = "bound"]
    /\ UNCHANGED <<task, drops, rhist, notDispatchVars>>

\* impl Drop for IpLease: drop spawns the task
SpawnDrop(s) ==
    drops \cup {[lease |-> rsess[s].lease, addr |-> rsess[s].ip[1], pc |-> "remove",
                 removed |-> None]}

\* the session's receive fails (the client went away): the loop ends and the
\* IpLease is dropped
Disconnect(s) ==
    /\ rsess[s].pc \in {"leased", "bound"}
    /\ task[s].pc = "idle"
    /\ drops' = SpawnDrop(s)
    /\ rsess' = [rsess EXCEPT ![s] = NoRSession]
    /\ UNCHANGED <<router, sinks, task, rhist, notDispatchVars>>

\* route_packet returned Err to the session loop: the loop ends and the
\* IpLease is dropped
SessionFail(s) ==
    /\ task[s].pc = "failed"
    /\ drops' = SpawnDrop(s)
    /\ rsess' = [rsess EXCEPT ![s] = NoRSession]
    /\ task' = [task EXCEPT ![s] = NoTask]
    /\ UNCHANGED <<router, sinks, rhist, notDispatchVars>>

\* what HashMap::remove returns to the spawned task: the sink of the entry, if
\* there was one.  The task does not bind it: it is dropped at the end of the
\* statement, and close is not called on it
Removed(map, addr) ==
    IF addr \in DOMAIN map THEN Some([sink |-> map[addr], closed |-> FALSE]) ELSE None

\* the spawned task: router.routes.write().await.remove(&addr); the sink
\* removed is dropped
DropRemove(c) ==
    /\ c \in drops
    /\ c.pc = "remove"
    /\ WriteGranted
    /\ router' = [router EXCEPT !.routes = [a \in DOMAIN @ \ {c.addr} |-> @[a]]]
    /\ sinks' = [k \in Routed(router'.routes) |-> sinks[k]]
    /\ drops' = (drops \ {c}) \cup
                  {[c EXCEPT !.pc = "release", !.removed = Removed(router.routes, c.addr)]}
    /\ UNCHANGED <<rsess, task, rhist, notDispatchVars>>

\* the spawned task: router.ip_manager.lock().await.release(addr)
DropRelease(c) ==
    /\ c \in drops
    /\ c.pc = "release"
    /\ router' = [router EXCEPT !.ip_manager = release(@, c.addr)]
    /\ drops' = drops \ {c}
    /\ UNCHANGED <<sinks, rsess, task, rhist, notDispatchVars>>

\* the stream under a sink fails while a task is about to write to it: every
\* later write to it returns an error
SinkBreak(k) ==
    /\ k \in DOMAIN sinks
    /\ \E t \in Tasks : task[t].pc \in {"sink_lock", "send"} /\ task[t].sink = k
    /\ ~sinks[k].broken
    /\ sinks' = [sinks EXCEPT ![k].broken = TRUE]
    /\ UNCHANGED <<router, rsess, task, drops, rhist, notDispatchVars>>

\* what a task does with an outcome other than Ok and Error: route_incoming
\* logs it and reads on; route_packet goes on to the TUN sink
AfterLocal_ToTun(t, packet, outcome) ==
    [NoTask EXCEPT !.pc = "tun_lock", !.packet = packet]
AfterLocal(t, packet, outcome) ==
    IF t = TunIngress
    THEN NoTask
    ELSE [NoTask EXCEPT !.pc = "tun_lock", !.packet = packet]

\* a task has a packet (route_incoming read it from the TUN, a session
\* received it from its client) and calls route_local: parse, routes.read(),
\* routes.get(&destination)
Dispatch(t, packet) ==
    /\ task[t].pc = "idle"
    /\ ~task[t].ended
    /\ t # TunIngress => rsess[t].pc = "bound"
    /\ rhist.packets < MaxPackets
    /\ rhist' = [rhist EXCEPT !.packets = @ + 1,
                              !.read = IF t = TunIngress THEN "packet" ELSE @]
    /\ LET outcome == LocalOutcome(packet) IN
       IF outcome = "Route"
       THEN task' = [task EXCEPT ![t] =
                [NoTask EXCEPT !.pc = "sink_lock", !.packet = packet,
                               !.sink = router.routes[Destination(packet)],
                               !.stale = LeaseDropped(router.routes[Destination(packet)])]]
       ELSE task' = [task EXCEPT ![t] = AfterLocal(t, packet, outcome)]
    /\ UNCHANGED <<router, sinks, rsess, drops, notDispatchVars>>

\* the outcomes of tun.read other than a packet: Ok(0), the end of the TUN
\* source, and Err
ReadEnds == {"eof", "err"}

\* route_incoming after such a read: on Err the loop breaks and the task
\* returns; Ok(0) gives the empty slice buf[..0] to route_local, and the loop
\* goes on with what route_local returned
IngressAfterRead(outcome) ==
    IF outcome = "err"
    THEN [NoTask EXCEPT !.ended = TRUE]
    ELSE AfterLocal(TunIngress, <<>>, LocalOutcome(<<>>))

\* route_incoming: tun.read(&mut buf).await returns Ok(0) or Err
IngressReadEnd(outcome) ==
    /\ task[TunIngress].pc = "idle"
    /\ ~task[TunIngress].ended
    /\ rhist.packets < MaxPackets
    /\ rhist' = [rhist EXCEPT !.packets = @ + 1, !.read = outcome]
    /\ task' = [task EXCEPT ![TunIngress] = IngressAfterRead(outcome)]
    /\ UNCHANGED <<router, sinks, rsess, drops, notDispatchVars>>

\* the task's dispatch ended with Error: route_incoming logs it, route_packet
\* returns it to the session
AfterError(t) ==
    IF t = TunIngress
    THEN NoTask
    ELSE [task[t] EXCEPT !.pc = "failed"]

\* route_local: route.lock().await and the write of the length in send
SinkSendLen(t) ==
    /\ task[t].pc = "sink_lock"
    /\ LET k == task[t].sink IN
       /\ SinkLockFree(sinks[k].lock)
       /\ IF sinks[k].broken
          THEN /\ task' = [task EXCEPT ![t] = AfterError(t)]
               /\ sinks' = sinks
          ELSE /\ task' = [task EXCEPT ![t].pc = "send"]
               /\ sinks' = [sinks EXCEPT ![k].lock = Some(t),
                                         ![k].out = @ \o ToLeBytes(Len(task[t].packet)),
                                         ![k].grants = Append(@, task[t].packet)]
    /\ UNCHANGED <<router, rsess, drops, rhist, notDispatchVars>>

\* route_local, were a failed send to remove the route of the sink
SinkSendPacket_RemovesRoute(t) ==
    /\ task[t].pc = "send"
    /\ LET k == task[t].sink
           unlocked == IF sinks[k].lock = Some(t) THEN None ELSE sinks[k].lock
       IN IF sinks[k].broken
          THEN /\ task' = [task EXCEPT ![t] = AfterError(t)]
               /\ sinks' = [sinks EXCEPT ![k].lock = unlocked]
               /\ router' = [router EXCEPT !.routes =
                                [b \in {c \in DOMAIN @ : @[c] # k} |-> @[b]]]
          ELSE /\ task' = [task EXCEPT ![t] = NoTask]
               /\ sinks' = [sinks EXCEPT ![k].lock = unlocked,
                                         ![k].out = @ \o task[t].packet]
               /\ router' = router
    /\ UNCHANGED <<rsess, drops, rhist, notDispatchVars>>

\* route_local: the write of the packet and the flush in send; the guards are
\* dropped on return
SinkSendPacket(t) ==
    /\ task[t].pc = "send"
    /\ LET k == task[t].sink
           unlocked == IF sinks[k].lock = Some(t) THEN None ELSE sinks[k].lock
       IN IF sinks[k].broken
          THEN /\ task' = [task EXCEPT ![t] = AfterError(t)]
               /\ sinks' = [sinks EXCEPT ![k].lock = unlocked]
          ELSE /\ task' = [task EXCEPT ![t] = NoTask]
               /\ sinks' = [sinks EXCEPT ![k].lock = unlocked,
                                         ![k].out = @ \o task[t].packet]
    /\ UNCHANGED <<router, rsess, drops, rhist, notDispatchVars>>

\* what one write to the TUN takes of n bytes: all of them, or at first half
TunSent(n, offset) == {n} \cup (IF offset = 0 /\ n > 1 THEN {n \div 2} ELSE {})

\* route_packet: self.tun_writer.lock().await and the write loop, one write
\* at a step
TunWrite(t) ==
    /\ \/ task[t].pc = "tun_lock" /\ SinkLockFree(router.tun_writer.lock)
       \/ task[t].pc = "tun_write"
    /\ \E sent \in TunSent(Len(task[t].packet) - task[t].offset, task[t].offset) :
          LET offset == task[t].offset + sent
              done == offset >= Len(task[t].packet)
              grants == IF task[t].pc = "tun_lock"
                        THEN Append(router.tun_writer.grants, task[t].packet)
                        ELSE router.tun_writer.grants
          IN /\ router' = [router EXCEPT !.tun_writer =
                    [lock |-> IF done THEN None ELSE Some(t),
                     out |-> @.out \o SubSeq(task[t].packet, task[t].offset + 1, offset),
                     grants |-> grants]]
             /\ task' = [task EXCEPT ![t] =
                    IF done THEN NoTask
                    ELSE [task[t] EXCEPT !.pc = "tun_write", !.offset = offset]]
    /\ UNCHANGED <<sinks, rsess, drops, rhist, notDispatchVars>>

DispatchNext ==
    \/ \E s \in Clients : Acquire(s)
    \/ \E s \in Clients : Bind(s)
    \/ \E s \in Clients : Disconnect(s)
    \/ \E s \in Clients : SessionFail(s)
    \/ \E c \in drops : DropRemove(c)
    \/ \E c \in drops : DropRelease(c)
    \/ \E k \in DOMAIN sinks : SinkBreak(k)
    \/ \E t \in Tasks : \E packet \in DispatchPackets : Dispatch(t, packet)
    \/ \E outcome \in ReadEnds : IngressReadEnd(outcome)
    \/ \E t \in Tasks : SinkSendLen(t)
    \/ \E t \in Tasks : SinkSendPacket(t)
    \/ \E t \in Tasks : TunWrite(t)

DispatchSpec == DispatchInit /\ [][DispatchNext]_vars

\* the release step of a task spawned by drop can be taken: it waits for the
\* ip_manager mutex only, which no task holds across an await
DropReleaseEnabled == \E c \in drops : c.pc = "release"

\* WF_vars(\E c \in drops : DropRelease(c)), with ENABLED written out as the
\* guard of DropRelease
FairDropRelease ==
    \/ []<>(~DropReleaseEnabled)
    \/ []<><<\E c \in drops : DropRelease(c)>>_vars

\* the scheduler runs every spawned task and every granted lock is taken: the
\* tasks spawned by drop and the sends in progress go on
FairDispatchSpec ==
    /\ DispatchSpec
    /\ WF_vars(\E c \in drops : DropRemove(c))
    /\ FairDropRelease
    /\ WF_vars(\E t \in Tasks : SinkSendLen(t))
    /\ WF_vars(\E t \in Tasks : SinkSendPacket(t))

(***************************************************************************)
(* The Router's dispatch: claims C11 to C15 and C20.                       *)
(***************************************************************************)

\* an IPv4 packet whose destination has a route
HasRouteFor(packet) ==
    /\ Len(packet) >= 8
    /\ packet[1] \div 16 = 4
    /\ Ipv4(packet[5], packet[6], packet[7], packet[8]) \in DOMAIN router.routes

RouteOf(packet) == router.routes[Ipv4(packet[5], packet[6], packet[7], packet[8])]

RECURSIVE Concat(_, _)
Concat(log, i) == IF i > Len(log) THEN <<>> ELSE log[i] \o Concat(log, i + 1)

\* the bytes of the packet in hand that the task writing to the TUN has not
\* written yet
TunRest ==
    IF \E t \in Tasks : task[t].pc = "tun_write"
    THEN LET t == CHOOSE u \in Tasks : task[u].pc = "tun_write"
         IN SubSeq(task[t].packet, task[t].offset + 1, Len(task[t].packet))
    ELSE <<>>

\* the TUN sink holds the packets written to it whole, one after the other in
\* the order the lock was granted
TunWhole == router.tun_writer.out \o TunRest = Concat(router.tun_writer.grants, 1)

\* what route_packet does with the packet a task takes up
RoutesByDestination ==
    \A t \in Tasks :
        /\ (task[t].pc = "idle" /\ task'[t].pc # "idle") =>
              IF HasRouteFor(task'[t].packet)
              THEN task'[t].pc = "sink_lock" /\ task'[t].sink = RouteOf(task'[t].packet)
              ELSE task'[t].pc = "tun_lock"
        /\ task[t].pc \in {"sink_lock", "send", "failed"} =>
              task'[t].pc \notin {"tun_lock", "tun_write"}
        /\ task[t].pc \in {"tun_lock", "tun_write"} =>
              task'[t].pc \notin {"sink_lock", "send", "failed"}

IsFree(m, a) == ~(InSubnet(m, a) /\ HostIndex(m, a) \in m.blocked)

LeaseAddrs == {Ipv4(10, 0, 0, 0), Ipv4(10, 0, 0, 1), Ipv4(10, 0, 0, 2), Ipv4(10, 0, 0, 3)}

\* C12: after an IpLease is dropped (its cleanup task is spawned), eventually
\* the route of its address is absent and the address is free in the
\* allocator, so that get_ip may return it again.
C12_DropReleases ==
    \A a \in LeaseAddrs :
        (\E c \in drops : c.addr = a /\ c.pc = "remove")
            ~> (a \notin DOMAIN router.routes /\ IsFree(router.ip_manager, a))

\* an address was leased, dropped and cleaned up, and leased again
C12_Witness ==
    /\ drops = {}
    /\ \E s \in Clients :
          /\ rsess[s].lease = 2
          /\ rsess[s].ip = Some(Ipv4(10, 0, 0, 0))
    /\ \A s \in Clients : rsess[s].lease # 1
    /\ IsPrefixMask(router.config.netmask)

\* C13: no dispatch that starts after an IpLease was dropped sends to the sink
\* the lease had bound (stated for the prefix netmasks, where every lease has
\* an address of its own).
C13_NoSendAfterDrop ==
    IsPrefixMask(router.config.netmask) =>
        \A t \in Tasks : task[t].pc = "send" => ~task[t].stale

\* the lease handed out last, bound, when no other live lease holds its
\* address: every earlier holder of the address has disconnected
NewestBound(s) ==
    /\ rsess[s].pc = "bound"
    /\ rsess[s].lease = rhist.leases
    /\ \A u \in Clients \ {s} : rsess[u].ip # rsess[s].ip

\* C14: once the earlier holders of an address have disconnected and its new
\* holder has bound its sink, the route of the address is that sink for as
\* long as the lease lives: the cleanup of an older lease neither removes nor
\* replaces it, and a packet routed to the address goes to the new sink.
C14_ReuseReachesNewSink ==
    \A s \in Clients : NewestBound(s) =>
        /\ rsess[s].ip[1] \in DOMAIN router.routes
        /\ router.routes[rsess[s].ip[1]] = rsess[s].lease
        /\ \A t \in Tasks :
              (task[t].pc \in {"sink_lock", "send"}
                 /\ Destination(task[t].packet) = rsess[s].ip[1])
                  => task[t].sink = rsess[s].lease

\* C14 restricted to prefix netmasks
C14_ReuseReachesNewSinkPrefix ==
    IsPrefixMask(router.config.netmask) => C14_ReuseReachesNewSink

\* C15: when the send to another client's sink fails, the session that routed
\* the packet goes on: it keeps its lease and its route (stated for the prefix
\* netmasks, where every lease has an address of its own).
C15_ErrorStaysLocal ==
    [][\A s \in Clients :
          (/\ IsPrefixMask(router.config.netmask)
           /\ task[s].pc = "failed"
           /\ task[s].sink # rsess[s].lease)
              => (rsess'[s] = rsess[s] /\ drops' = drops)]_vars

\* the tasks between the write of the length and the write of the packet
Holders(k) == {t \in Tasks : task[t].pc = "send" /\ task[t].sink = k}

\* the packet such a task has still to write
TaskPacket(ts) == IF ts = {} THEN <<>> ELSE task[CHOOSE t \in ts : TRUE].packet

\* C20: the writes to one sink are serialized by its lock: the length and the
\* bytes of a packet are written together while the lock is held, the bytes of
\* two packets never interleave, and the packets lie on the sink in the order
\* the lock was granted; the same holds of the TUN sink.
C20_SerializedWrites ==
    /\ \A k \in DOMAIN sinks :
          /\ Cardinality(Holders(k)) <= 1
          /\ ~sinks[k].broken =>
                /\ \A t \in Tasks : t \in Holders(k) <=> sinks[k].lock = Some(t)
                /\ sinks[k].out \o TaskPacket(Holders(k)) = FramesFrom(sinks[k].grants, 1)
    /\ Cardinality({t \in Tasks : task[t].pc = "tun_write"}) <= 1
    /\ \A t \in Tasks : task[t].pc = "tun_write" <=> router.tun_writer.lock = Some(t)
    /\ TunWhole

\* the TUN-ingress task and a session task dispatch to the same sink: one
\* holds its lock between the length and the packet, the other waits
C20_Witness ==
    \E k \in DOMAIN sinks : \E t, u \in Tasks :
        /\ TunIngress \in {t, u}
        /\ sinks[k].lock = Some(t)
        /\ task[t].pc = "send" /\ task[t].sink = k
        /\ task[u].pc = "sink_lock" /\ task[u].sink = k
        /\ Len(sinks[k].grants) = 1

(***************************************************************************)
(* The client (src/src/client.rs): Client::run from the start of the two   *)
(* pumps, send_tun (TLS stream to TUN) and receive_tun (TUN to TLS         *)
(* stream), the stop latch (a tokio watch channel that the Ctrl-C handler  *)
(* of main.rs sets to true), and the end of run: reroute, Unsplit,         *)
(* shutdown.                                                               *)
(***************************************************************************)

MaxRaises == 2
MaxTunIn == 1

Pumps == {"send_tun", "receive_tun"}
Returned == {"ok", "err"}

\* what the server has sent: two frames
ClientInbound == Frame(<<7>>) \o Frame(<<8, 9>>)
\* the packets the TUN device hands to the client
ClientTunPackets == {<<69, 1>>}

Min2(a, b) == IF a < b THEN a ELSE b

\* what one read or write takes of n bytes: all of them, or one
ClientChunks(n) == {n} \cup (IF n > 1 THEN {1} ELSE {})

\* the routing table of the host as the client found it: the default route
\* is the original one and there is no /32 route for the VPN server
HostRoutes == [exception |-> FALSE, default |-> "original"]

\* DefaultRoute::try_new: the original default route is kept, new_gateway is
\* None
NewDefaultRoute == [new_gateway |-> FALSE]

\* DefaultRoute::reset, the outcomes: without a new_gateway nothing is done;
\* DeleteIpForwardEntry fails and new_gateway is put back; the /32 route is
\* deleted and SetIpForwardEntry(original) succeeds or fails
DefaultRouteReset(manager, host) ==
    IF ~manager.new_gateway
    THEN {[manager |-> manager, host |-> host, ok |-> TRUE]}
    ELSE {[manager |-> manager, host |-> host, ok |-> FALSE],
          [manager |-> [new_gateway |-> FALSE],
           host |-> [exception |-> FALSE, default |-> "original"], ok |-> TRUE],
          [manager |-> [new_gateway |-> FALSE],
           host |-> [host EXCEPT !.exception = FALSE], ok |-> FALSE]}

\* DefaultRoute::reroute, the outcomes: self.reset()?, then
\* CreateIpForwardEntry of the /32 route for the server (preserved) and
\* SetIpForwardEntry of the default route with the VPN gateway as next hop
DefaultRouteReroute(manager, host) ==
    UNION {IF ~r.ok THEN {r}
           ELSE {[manager |-> r.manager, host |-> r.host, ok |-> FALSE],
                 [manager |-> [new_gateway |-> TRUE],
                  host |-> [r.host EXCEPT !.exception = TRUE], ok |-> FALSE],
                 [manager |-> [new_gateway |-> TRUE],
                  host |-> [exception |-> TRUE, default |-> "vpn"], ok |-> TRUE]}
           : r \in DefaultRouteReset(manager, host)}

\* Drop for DefaultRoute: reset, its error logged; what it leaves of the host
\* routes. Nothing is dropped when run holds no manager.
DropManager(route_manager, host) ==
    IF route_manager = None THEN {host}
    ELSE {r.host : r \in DefaultRouteReset(route_manager[1], host)}

\* a pump at the head of its loop, with the receiver it got: a clone of
\* Client::stop_receiver, which has seen the version the channel started with
NewPump == [pc |-> "check", seen |-> 0, lenbuf |-> <<>>, packet |-> <<>>, offset |-> 0,
            after |-> 0]

ClientInit ==
    /\ ForwardUnused
    /\ DispatchUnused
    /\ IpmUnused
    /\ RouterUnused
    /\ FrameUnused
    /\ ConfigUnused
    /\ ServerUnused
    /\ stop = [value |-> FALSE, version |-> 0]
    /\ pumps = [p \in Pumps |-> NewPump]
    /\ tlsio = [inb |-> ClientInbound, out |-> <<>>, shutdown |-> FALSE]
    /\ \E n \in 0 .. MaxTunIn : \E q \in [1 .. n -> ClientTunPackets] :
          tunio = [inq |-> q, out |-> <<>>]
    /\ \E reroute \in BOOLEAN :
          crun = [pc |-> "join", reroute |-> reroute, route_manager |-> None,
                  host |-> HostRoutes, read_half |-> FALSE, write_half |-> FALSE,
                  result |-> "none"]
    /\ chist = [dropped |-> <<>>]

\* main.rs, the Ctrl-C handler: stop_sender.send(true); every send makes a
\* new version of the channel's value
Raise ==
    /\ crun.pc \in {"configure", "ensure", "create_tun", "pumps",
                    "join", "reroute", "unsplit", "shutdown", "reset"}
    /\ stop.version < MaxRaises
    /\ stop' = [value |-> TRUE, version |-> stop.version + 1]
    /\ UNCHANGED <<pumps, tlsio, tunio, crun, chist, notClientVars>>

\* stop_receiver.changed() is ready: the channel holds a version the
\* receiver has not seen
HasChanged_Missed(version, seen) == FALSE
HasChanged(version, seen) == version # seen

\* while !*stop_receiver.borrow_and_update(): the receiver marks the version
\* seen; on true the pump returns Ok with its half, else it makes the two
\* futures of the select
PumpCheck(p) ==
    /\ crun.pc = "join"
    /\ pumps[p].pc = "check"
    /\ pumps' = [pumps EXCEPT ![p] =
          [@ EXCEPT !.seen = stop.version,
                    !.pc = IF stop.value THEN "ok" ELSE "select",
                    !.lenbuf = <<>>, !.packet = <<>>, !.offset = 0]]
    /\ UNCHANGED <<stop, tlsio, tunio, crun, chist, notClientVars>>

\* select!: the branch of stop_fut; the other future is dropped with what
\* it holds, and the loop goes on (res is Ok: Client keeps the sender)
StopBranch(p) ==
    /\ pumps[p].pc = "select"
    /\ HasChanged(stop.version, pumps[p].seen)
    /\ chist' = [chist EXCEPT !.dropped = @ \o pumps[p].lenbuf \o pumps[p].packet]
    /\ pumps' = [pumps EXCEPT ![p] =
          [@ EXCEPT !.seen = stop.version, !.pc = "check",
                    !.lenbuf = <<>>, !.packet = <<>>]]
    /\ UNCHANGED <<stop, tlsio, tunio, crun, notClientVars>>

\* a packet branch taken: the packets a pump took up with the latch raised
TakeUp(p) == IF stop.value THEN pumps[p].after + 1 ELSE pumps[p].after

\* send_tun, packet_fut = receiver.receive(): read_u16 reads the two bytes of
\* the length, in one read or two; a length of 0 ends receive
ReceiveLen ==
    /\ pumps["send_tun"].pc = "select"
    /\ Len(pumps["send_tun"].lenbuf) < 2
    /\ tlsio.inb # <<>>
    /\ \E n \in ClientChunks(Min2(2 - Len(pumps["send_tun"].lenbuf), Len(tlsio.inb))) :
          LET lenbuf == pumps["send_tun"].lenbuf \o Take(tlsio.inb, n)
              done == Len(lenbuf) = 2 /\ FromLeBytes(lenbuf) = 0
          IN /\ tlsio' = [tlsio EXCEPT !.inb = Drop(@, n)]
             /\ pumps' = [pumps EXCEPT !["send_tun"] =
                    [@ EXCEPT !.lenbuf = lenbuf,
                              !.pc = IF done THEN "write" ELSE "select",
                              !.after = IF done THEN TakeUp("send_tun") ELSE @]]
    /\ UNCHANGED <<stop, tunio, crun, chist, notClientVars>>

\* send_tun, receiver.receive(): the read loop of the payload; the packet
\* branch is taken when the packet is whole
ReceivePayload ==
    /\ pumps["send_tun"].pc = "select"
    /\ Len(pumps["send_tun"].lenbuf) = 2
    /\ tlsio.inb # <<>>
    /\ LET packet_size == FromLeBytes(pumps["send_tun"].lenbuf)
           missing == packet_size - Len(pumps["send_tun"].packet)
       IN \E n \in ClientChunks(Min2(missing, Len(tlsio.inb))) :
             LET done == n = missing
             IN /\ tlsio' = [tlsio EXCEPT !.inb = Drop(@, n)]
                /\ pumps' = [pumps EXCEPT !["send_tun"] =
                       [@ EXCEPT !.packet = @ \o Take(tlsio.inb, n),
                                 !.pc = IF done THEN "write" ELSE "select",
                                 !.after = IF done THEN TakeUp("send_tun") ELSE @]]
    /\ UNCHANGED <<stop, tunio, crun, chist, notClientVars>>

\* send_tun, let packet = packet_res?: a read fails, or the stream ends
\* (received == 0, UnexpectedEof)
ReceiveFail ==
    /\ pumps["send_tun"].pc = "select"
    /\ pumps' = [pumps EXCEPT !["send_tun"].pc = "err"]
    /\ UNCHANGED <<stop, tlsio, tunio, crun, chist, notClientVars>>

\* send_tun, full_send(&mut tun, &packet): one write of the loop; the flush
\* follows the last
FullSend ==
    /\ pumps["send_tun"].pc = "write"
    /\ LET left == Len(pumps["send_tun"].packet) - pumps["send_tun"].offset IN
       IF left = 0
       THEN /\ pumps' = [pumps EXCEPT !["send_tun"].pc = "check"]
            /\ tunio' = tunio
       ELSE \E n \in ClientChunks(left) :
               /\ tunio' = [tunio EXCEPT !.out = @ \o
                     SubSeq(pumps["send_tun"].packet, pumps["send_tun"].offset + 1,
                            pumps["send_tun"].offset + n)]
               /\ pumps' = [pumps EXCEPT !["send_tun"] =
                     [@ EXCEPT !.offset = @ + n,
                               !.pc = IF n = left THEN "check" ELSE "write"]]
    /\ UNCHANGED <<stop, tlsio, crun, chist, notClientVars>>

\* send_tun, full_send(..).await?: a write to the TUN or the flush fails
FullSendFail ==
    /\ pumps["send_tun"].pc = "write"
    /\ pumps' = [pumps EXCEPT !["send_tun"].pc = "err"]
    /\ UNCHANGED <<stop, tlsio, tunio, crun, chist, notClientVars>>

\* receive_tun, read_fut = tun.read(buf): the device hands over one packet
TunRead ==
    /\ pumps["receive_tun"].pc = "select"
    /\ tunio.inq # <<>>
    /\ tunio' = [tunio EXCEPT !.inq = Tail(@)]
    /\ pumps' = [pumps EXCEPT !["receive_tun"] =
          [@ EXCEPT !.packet = Head(tunio.inq), !.pc = "send_len",
                    !.after = TakeUp("receive_tun")]]
    /\ UNCHANGED <<stop, tlsio, crun, chist, notClientVars>>

\* receive_tun, the read of the TUN ends: packet_res? is an error, or
\* received == 0 and the pump returns Ok(sender)
TunReadEnd ==
    /\ pumps["receive_tun"].pc = "select"
    /\ tunio.inq = <<>>
    /\ \E pc \in Returned : pumps' = [pumps EXCEPT !["receive_tun"].pc = pc]
    /\ UNCHANGED <<stop, tlsio, tunio, crun, chist, notClientVars>>

\* receive_tun, sender.send(&buf[..received]): write_u16
PumpSendLen ==
    /\ pumps["receive_tun"].pc = "send_len"
    /\ tlsio' = [tlsio EXCEPT !.out = @ \o ToLeBytes(Len(pumps["receive_tun"].packet))]
    /\ pumps' = [pumps EXCEPT !["receive_tun"].pc = "send_packet"]
    /\ UNCHANGED <<stop, tunio, crun, chist, notClientVars>>

\* receive_tun, sender.send: the write loop and the flush
PumpSendPacket ==
    /\ pumps["receive_tun"].pc = "send_packet"
    /\ tlsio' = [tlsio EXCEPT !.out = @ \o pumps["receive_tun"].packet]
    /\ pumps' = [pumps EXCEPT !["receive_tun"].pc = "check"]
    /\ UNCHANGED <<stop, tunio, crun, chist, notClientVars>>

\* receive_tun, sender.send(..).await?: a write to the stream fails
PumpSendFail ==
    /\ pumps["receive_tun"].pc \in {"send_len", "send_packet"}
    /\ pumps' = [pumps EXCEPT !["receive_tun"].pc = "err"]
    /\ UNCHANGED <<stop, tlsio, tunio, crun, chist, notClientVars>>

\* Client::run: tokio::join!(send_fut, receive_fut) returns when both pumps
\* have returned
JoinPumps ==
    /\ crun.pc = "join"
    /\ \A p \in Pumps : pumps[p].pc \in Returned
    /\ crun' = [crun EXCEPT !.pc = "reroute"]
    /\ UNCHANGED <<stop, pumps, tlsio, tunio, chist, notClientVars>>

\* Client::run: if self.reroute { .. }: an IPv6 address bails and
\* RouteManager::try_new()? returns its error; reroute(..)? returns its error
\* and the manager is dropped
Reroute ==
    /\ crun.pc = "reroute"
    /\ IF crun.reroute
       THEN \/ crun' = [crun EXCEPT !.pc = "returned", !.result = "err"]
            \/ \E r \in DefaultRouteReroute(NewDefaultRoute, crun.host) :
                  IF r.ok
                  THEN crun' = [crun EXCEPT !.pc = "unsplit", !.host = r.host,
                                            !.route_manager = Some(r.manager)]
                  ELSE \E host \in DropManager(Some(r.manager), r.host) :
                          crun' = [crun EXCEPT !.pc = "returned", !.result = "err",
                                               !.host = host]
       ELSE crun' = [crun EXCEPT !.pc = "unsplit"]
    /\ UNCHANGED <<stop, pumps, tlsio, tunio, chist, notClientVars>>

\* Unsplit::unsplit: Some(stream) when both halves were saved
Unsplits(read_half, write_half) == read_half /\ write_half

\* Client::run: the half of each pump that returned Ok is saved, the error of
\* the other is logged; then unsplitter.unsplit()
UnsplitHalves ==
    /\ crun.pc = "unsplit"
    /\ LET read_half == pumps["send_tun"].pc = "ok"
           write_half == pumps["receive_tun"].pc = "ok"
       IN crun' = [crun EXCEPT !.read_half = read_half, !.write_half = write_half,
                               !.pc = IF Unsplits(read_half, write_half)
                                      THEN "shutdown" ELSE "reset"]
    /\ UNCHANGED <<stop, pumps, tlsio, tunio, chist, notClientVars>>

\* Client::run: stream.shutdown().await?
Shutdown ==
    /\ crun.pc = "shutdown"
    /\ \E ok \in BOOLEAN :
          IF ok
          THEN /\ tlsio' = [tlsio EXCEPT !.shutdown = TRUE]
               /\ crun' = [crun EXCEPT !.pc = "reset"]
          ELSE /\ tlsio' = tlsio
               /\ \E host \in DropManager(crun.route_manager, crun.host) :
                     crun' = [crun EXCEPT !.pc = "returned", !.result = "err",
                                          !.host = host, !.route_manager = None]
    /\ UNCHANGED <<stop, pumps, tunio, chist, notClientVars>>

\* Client::run: route_manager.take() .. manager.reset()?; Ok(()); the manager
\* taken is dropped when run returns
ResetRoutes ==
    /\ crun.pc = "reset"
    /\ IF crun.route_manager = None
       THEN crun' = [crun EXCEPT !.pc = "returned", !.result = "ok"]
       ELSE \E r \in DefaultRouteReset(crun.route_manager[1], crun.host) :
               \E host \in DropManager(Some(r.manager), r.host) :
                  crun' = [crun EXCEPT !.pc = "returned",
                                       !.result = IF r.ok THEN "ok" ELSE "err",
                                       !.host = host, !.route_manager = None]
    /\ UNCHANGED <<stop, pumps, tlsio, tunio, chist, notClientVars>>

ClientNext ==
    \/ Raise
    \/ \E p \in Pumps : PumpCheck(p)
    \/ \E p \in Pumps : StopBranch(p)
    \/ ReceiveLen
    \/ ReceivePayload
    \/ ReceiveFail
    \/ FullSend
    \/ FullSendFail
    \/ TunRead
    \/ TunReadEnd
    \/ PumpSendLen
    \/ PumpSendPacket
    \/ PumpSendFail
    \/ JoinPumps
    \/ Reroute
    \/ UnsplitHalves
    \/ Shutdown
    \/ ResetRoutes

ClientSpec == ClientInit /\ [][ClientNext]_vars

\* what a pump does of its own once polled: the check of the latch, the
\* branch of the stop future, and the reads and writes that are ready
PumpProgress(p) ==
    \/ PumpCheck(p)
    \/ StopBranch(p)
    \/ p = "send_tun" /\ (ReceiveLen \/ ReceivePayload \/ FullSend)
    \/ p = "receive_tun" /\ (TunRead \/ PumpSendLen \/ PumpSendPacket)

\* join! polls a pump whenever it was woken, the watch channel wakes its
\* receivers at every send, and a write in progress completes
FairClientSpec ==
    /\ ClientSpec
    /\ \A p \in Pumps : WF_vars(PumpProgress(p))

(***************************************************************************)
(* The client's pumps and the stop latch: claims C16 to C18.               *)
(***************************************************************************)

\* C16: raising the stop latch at any moment (before a pump has started,
\* between its check of the latch and its wait, during a transfer) makes both
\* pumps return eventually; a pump that waits with the latch raised has a
\* change to see (no lost wake-up), and a pump takes up at most one packet
\* after the raise.
C16_StopReturnsPumps ==
    /\ stop.value ~> (\A p \in Pumps : pumps[p].pc \in Returned)
    /\ [](\A p \in Pumps :
             /\ (stop.value /\ pumps[p].pc = "select") => pumps[p].seen < stop.version
             /\ pumps[p].after <= 1)

\* the latch was raised while send_tun waited or was about to, send_tun took
\* up one more packet and wrote it, and both pumps have returned Ok
C16_Witness ==
    /\ stop.value
    /\ \A p \in Pumps : pumps[p].pc = "ok"
    /\ pumps["send_tun"].after = 1
    /\ tunio.inq = <<>>

\* the bytes are a sequence of whole frames
RECURSIVE WholeFrames(_)
WholeFrames(bytes) ==
    \/ bytes = <<>>
    \/ /\ Len(bytes) >= 2
       /\ Len(bytes) >= 2 + FromLeBytes(Take(bytes, 2))
       /\ WholeFrames(Drop(bytes, 2 + FromLeBytes(Take(bytes, 2))))

\* C17: cancellation never splits a packet: no receive that had taken bytes of
\* a frame off the stream is cancelled, and a pump that returns Ok has read
\* whole frames and written whole frames only.
C17_NoSplitPacket ==
    /\ chist.dropped = <<>>
    /\ pumps["send_tun"].pc = "ok" => WholeFrames(tlsio.inb)
    /\ pumps["receive_tun"].pc = "ok" => WholeFrames(tlsio.out)

\* C18: when the stop latch was raised, Client::run has shut the TLS stream
\* down before it returns.
C18_ShutdownBeforeReturn ==
    (crun.pc = "returned" /\ stop.value) => tlsio.shutdown

(***************************************************************************)
(* One session in both directions (src/src/server.rs, src/src/client.rs):  *)
(* up, the client's receive_tun frames the packets of its TUN onto the     *)
(* stream and the server's forward_packets writes them to the server's     *)
(* TUN; down, the server's route_incoming frames packets onto the stream   *)
(* and the client's send_tun writes them to the client's TUN.              *)
(***************************************************************************)

MaxForward == 2
MaxUp == 2
MaxDown == 2

ForwardSessions == 1 .. MaxForward

\* the packets client s reads from its TUN, in order
UpPackets(s) == [i \in 1 .. MaxUp |-> <<69, s, i>>]
\* the i-th packet the server's TUN has for client s
DownPacket(s, i) == <<69, 100 + s, i>>

NoForward ==
    [inq |-> <<>>, hand |-> None, up |-> <<>>, pending |-> {}, down |-> <<>>,
     chand |-> None, ctun |-> <<>>, dsent |-> <<>>]

ForwardInit ==
    /\ ClientUnused
    /\ DispatchUnused
    /\ IpmUnused
    /\ RouterUnused
    /\ FrameUnused
    /\ ConfigUnused
    /\ ServerUnused
    /\ fsess = [s \in ForwardSessions |-> [NoForward EXCEPT !.inq = UpPackets(s)]]
    /\ ftun = [out |-> <<>>]
    /\ fhist = [incoming |-> 0]

\* receive_tun: tun.read(buf) is ready; the next read is made only when the
\* branch body, the send of this packet, has completed
ForwardTunRead(s) ==
    /\ fsess[s].hand = None
    /\ fsess[s].inq # <<>>
    /\ fsess' = [fsess EXCEPT ![s].hand = Some(Head(fsess[s].inq)), ![s].inq = Tail(@)]
    /\ UNCHANGED <<ftun, fhist, notForwardVars>>

\* receive_tun: sender.send(&buf[..received])
ForwardPumpSend(s) ==
    /\ fsess[s].hand # None
    /\ fsess' = [fsess EXCEPT ![s].up = @ \o ToLeBytes(Len(fsess[s].hand[1]))
                                          \o fsess[s].hand[1],
                              ![s].hand = None]
    /\ UNCHANGED <<ftun, fhist, notForwardVars>>

\* forward_packets calls receive: the loop is back at its head, the write of
\* the packet before has returned
CanReceive_Concurrent(pending) == TRUE
CanReceive(pending) == pending = {}

\* forward_packets: packet_receiver.receive().await? returns a packet
ForwardReceive(s) ==
    /\ CanReceive(fsess[s].pending)
    /\ FrameAt(fsess[s].up, 0) # None
    /\ LET packet == FrameAt(fsess[s].up, 0)[1] IN
       fsess' = [fsess EXCEPT ![s].pending = @ \cup {packet},
                              ![s].up = Drop(@, 2 + Len(packet))]
    /\ UNCHANGED <<ftun, fhist, notForwardVars>>

\* forward_packets: self.tun_writer.lock().await.write(&packet).await?
ForwardWrite(s) ==
    /\ \E packet \in fsess[s].pending :
          /\ ftun' = [ftun EXCEPT !.out = Append(@, <<s, packet>>)]
          /\ fsess' = [fsess EXCEPT ![s].pending = @ \ {packet}]
    /\ UNCHANGED <<fhist, notForwardVars>>

\* route_incoming: a packet for client s is read from the server's TUN and
\* sent along the route, route.send(&packet)
ForwardRouteIncoming(s) ==
    /\ fhist.incoming < MaxDown
    /\ fhist' = [fhist EXCEPT !.incoming = @ + 1]
    /\ LET packet == DownPacket(s, Len(fsess[s].dsent) + 1) IN
       fsess' = [fsess EXCEPT ![s].down = @ \o ToLeBytes(Len(packet)) \o packet,
                              ![s].dsent = Append(@, packet)]
    /\ UNCHANGED <<ftun, notForwardVars>>

\* send_tun: receiver.receive() returns a packet; the next receive is made
\* only when the branch body, full_send of this packet, has completed
ForwardSendTunReceive(s) ==
    /\ fsess[s].chand = None
    /\ FrameAt(fsess[s].down, 0) # None
    /\ LET packet == FrameAt(fsess[s].down, 0)[1] IN
       fsess' = [fsess EXCEPT ![s].chand = Some(packet),
                              ![s].down = Drop(@, 2 + Len(packet))]
    /\ UNCHANGED <<ftun, fhist, notForwardVars>>

\* send_tun: full_send(&mut tun, &packet)
ForwardFullSend(s) ==
    /\ fsess[s].chand # None
    /\ fsess' = [fsess EXCEPT ![s].ctun = Append(@, fsess[s].chand[1]),
                              ![s].chand = None]
    /\ UNCHANGED <<ftun, fhist, notForwardVars>>

ForwardNext ==
    \/ \E s \in ForwardSessions : ForwardTunRead(s)
    \/ \E s \in ForwardSessions : ForwardPumpSend(s)
    \/ \E s \in ForwardSessions : ForwardReceive(s)
    \/ \E s \in ForwardSessions : ForwardWrite(s)
    \/ \E s \in ForwardSessions : ForwardRouteIncoming(s)
    \/ \E s \in ForwardSessions : ForwardSendTunReceive(s)
    \/ \E s \in ForwardSessions : ForwardFullSend(s)

ForwardSpec == ForwardInit /\ [][ForwardNext]_vars

(***************************************************************************)
(* Per-session order: claim C19.                                           *)
(***************************************************************************)

\* the packets of session s on the server's TUN, in the order written
RECURSIVE OfSession(_, _)
OfSession(log, s) ==
    IF log = <<>> THEN <<>>
    ELSE IF Head(log)[1] = s THEN <<Head(log)[2]>> \o OfSession(Tail(log), s)
    ELSE OfSession(Tail(log), s)

\* C19: a session's packets are handled one at a time in arrival order:
\* forward_packets has at most one packet in hand, the packets of a session
\* lie on the server's TUN in the order its client sent them, and the packets
\* sent down to a client lie on its TUN in the order they were sent.
C19_SessionFifo ==
    \A s \in ForwardSessions :
        /\ Cardinality(fsess[s].pending) <= 1
        /\ IsPrefix(OfSession(ftun.out, s), UpPackets(s))
        /\ IsPrefix(fsess[s].ctun, fsess[s].dsent)

\* both packets of session 1 are on the server's TUN with a packet of session
\* 2 between them, and a client's TUN holds two packets sent down to it
C19_Witness ==
    /\ Len(ftun.out) >= 3
    /\ ftun.out[1] = <<1, UpPackets(1)[1]>>
    /\ ftun.out[2][1] = 2
    /\ ftun.out[3] = <<1, UpPackets(1)[2]>>
    /\ \E s \in ForwardSessions : Len(fsess[s].ctun) = 2

(***************************************************************************)
(* The Router's dispatch: claims C26 to C30.                               *)
(***************************************************************************)

\* a step of route_local, route_packet or route_incoming: a task takes up a
\* packet, takes a lock, writes, or returns
RoutingStep == \E t \in Tasks : task'[t] # task[t]

\* C26: no step of route_local or route_packet, whatever its outcome, changes
\* the route entries or the allocator; a route entry goes away only in the
\* cleanup task of the drop of a lease of its address, never through a failed
\* send.
C26_RoutingKeepsOwnership ==
    /\ [][RoutingStep => /\ router'.routes = router.routes
                         /\ router'.ip_manager = router.ip_manager]_vars
    /\ [][\A a \in DOMAIN router.routes :
            a \notin DOMAIN router'.routes =>
                \E c \in drops : c.addr = a /\ c.pc = "remove" /\ c \notin drops']_vars

\* a send to a client's sink has failed, the error is with the caller, and
\* the route of that client, whose lease lives, is in place
C26_Witness ==
    \E t \in Clients :
        /\ task[t].pc = "failed"
        /\ sinks[task[t].sink].broken
        /\ ~LeaseDropped(task[t].sink)
        /\ \E a \in DOMAIN router.routes : router.routes[a] = task[t].sink

\* C27: the TUN-ingress task goes on after a TUN read error and after every
\* packet it could not deliver, and it ends when, and only when, the TUN
\* source reports its end with a read of zero bytes.
C27_IngressEndsOnEof ==
    /\ rhist.read = "err" => ~task[TunIngress].ended
    /\ rhist.read = "eof" => task[TunIngress].ended
    /\ task[TunIngress].ended => rhist.read = "eof"

\* C27 for the packets read: the task goes on after a packet that is not IP
\* or not IPv4, after a packet without a route and after a failed send
C27_IngressContinuesPerPacket ==
    rhist.read \in {"none", "packet"} => ~task[TunIngress].ended

\* a step of the TUN-ingress task other than the drop of a packet
IngressStep == task'[TunIngress] # task[TunIngress]

\* a packet was taken up and no task has it: route_incoming dropped it
IngressDrop == rhist'.packets # rhist.packets /\ task' = task

\* C28: the TUN-ingress task never writes to the TUN sink: a packet from the
\* TUN that is not IP, not IPv4 or has no route is dropped, written to no
\* client sink and not to the TUN sink; a packet with a route is written to
\* the one sink registered for its destination and to nothing else.
C28_IngressNeverToTun ==
    /\ [](task[TunIngress].pc \in {"idle", "sink_lock", "send"})
    /\ [](router.tun_writer.lock # Some(TunIngress))
    /\ [](task[TunIngress].pc \in {"sink_lock", "send"} =>
            /\ HasRouteFor(task[TunIngress].packet)
            /\ RouteOf(task[TunIngress].packet) = task[TunIngress].sink)
    /\ [][IngressStep =>
            /\ router'.tun_writer = router.tun_writer
            /\ \A k \in DOMAIN sinks :
                  sinks'[k].out # sinks[k].out => k = task[TunIngress].sink]_vars
    /\ [][IngressDrop => (sinks' = sinks /\ router' = router)]_vars

\* one lease; of two packets taken up one lies whole on the sink of the lease
\* and the other, which the TUN-ingress task read, lies nowhere
C28_Witness ==
    /\ rhist.leases = 1
    /\ rhist.packets = MaxPackets
    /\ rhist.read = "packet"
    /\ \A t \in Tasks : task[t].pc = "idle"
    /\ router.tun_writer.grants = <<>>
    /\ \E a \in DOMAIN router.routes : sinks[router.routes[a]].out = Frame(TunPacket(a))

\* a task is at routes.write().await: a session in set_route, or the cleanup
\* task of a dropped lease
WantsWrite ==
    \/ \E s \in Clients : rsess[s].pc = "leased"
    \/ \E c \in drops : c.pc = "remove"

\* a send to a client sink is in progress
Sending == {t \in Tasks : task[t].pc = "send"}

\* C29: while a send to a client sink is in progress, a task that asks for
\* the writer lock of routes (to insert or to remove a route) gets it, and a
\* task that waits for the sink of another client is not held up by the
\* sending task (stated for the prefix netmasks, where every lease has an
\* address of its own).
C29_WritersNotBlocked ==
    IsPrefixMask(router.config.netmask) =>
        /\ (WantsWrite /\ Sending # {}) => WriteGranted
        /\ \A t \in Sending : \A u \in Tasks :
              (task[u].pc = "sink_lock" /\ task[u].sink # task[t].sink)
                  => sinks[task[u].sink].lock # Some(t)

\* C29 without the writers: a send in progress holds the lock of its own sink
\* only
C29_OtherSinksFree ==
    \A t \in Sending : \A k \in DOMAIN sinks :
        sinks[k].lock = Some(t) => k = task[t].sink

\* the sink locks a task holds, and whether it holds the lock of the TUN sink
HoldsSink(t) == {k \in DOMAIN sinks : sinks[k].lock = Some(t)}
HoldsTun(t) == router.tun_writer.lock = Some(t)

\* the tasks a task waits for: the holder of the sink lock or of the TUN lock
\* it has asked for, or, for a session in set_route, the holders of the read
\* guards of routes
WaitsFor(u) ==
    IF task[u].pc = "sink_lock" THEN {t \in Tasks : task[u].sink \in HoldsSink(t)}
    ELSE IF task[u].pc = "tun_lock" THEN {t \in Tasks : HoldsTun(t)}
    ELSE IF u \in Clients /\ rsess[u].pc = "leased" THEN ReadLocked
    ELSE {}

\* the tasks reached from u along at most n waits
RECURSIVE WaitsUpTo(_, _)
WaitsUpTo(u, n) ==
    IF n = 0 THEN {}
    ELSE WaitsFor(u) \cup UNION {WaitsUpTo(t, n - 1) : t \in WaitsFor(u)}

\* C30: the locks of the Router cannot deadlock: no task waits, directly or
\* through other waiting tasks, for a lock it holds itself; a sink lock is
\* held only inside the read guard of routes by the task that is writing to
\* that sink; the TUN lock is asked for and held by a task that holds neither
\* a read guard nor a sink lock; and a task that asks for the writer lock of
\* routes or for the allocator holds no lock.
C30_NoDeadlock ==
    /\ \A u \in Tasks : u \notin WaitsUpTo(u, Cardinality(Tasks))
    /\ \A t \in Tasks : \A k \in HoldsSink(t) :
          /\ task[t].pc = "send"
          /\ task[t].sink = k
          /\ t \in ReadLocked
    /\ \A t \in Tasks : HoldsTun(t) => task[t].pc = "tun_write"
    /\ \A t \in Tasks : task[t].pc \in {"tun_lock", "tun_write"} =>
          (t \notin ReadLocked /\ HoldsSink(t) = {})
    /\ \A s \in Clients : rsess[s].pc \in {"idle", "leased"} =>
          (s \notin ReadLocked /\ HoldsSink(s) = {} /\ ~HoldsTun(s))

\* the locks are contended: a task writes to a sink under its lock, another
\* task waits for that lock inside its own read guard, and a session waits
\* for the writer lock of routes
C30_Witness ==
    /\ IsPrefixMask(router.config.netmask)
    /\ \E t, u \in Tasks :
          /\ t # u
          /\ t \in WaitsFor(u)
          /\ task[u].pc = "sink_lock"
          /\ task[t].pc = "send"
    /\ \E s \in Clients : rsess[s].pc = "leased" /\ WaitsFor(s) # {}

(***************************************************************************)
(* The Router's dispatch: claim C33.                                       *)
(***************************************************************************)

\* C33: the cleanup task of a dropped lease removes the route, then closes
\* the sink it removed, then releases the address: when the task is at the
\* release of the address, the route of its lease is gone and close has been
\* called on the sink that was removed (stated for the prefix netmasks, where
\* every lease has an address of its own).
C33_CloseBeforeRelease ==
    IsPrefixMask(router.config.netmask) =>
        \A c \in drops : c.pc = "release" =>
            /\ \A a \in DOMAIN router.routes : router.routes[a] # c.lease
            /\ c.removed # None => c.removed[1].closed

\* the part of C33 about the route: it is removed before the address is
\* released
C33_RemoveBeforeRelease ==
    \A c \in drops : c.pc = "release" =>
        \A a \in DOMAIN router.routes : router.routes[a] # c.lease


(***************************************************************************)
(* Client::run from the connected stream on (src/src/client.rs): the       *)
(* configuration is received and checked by configure_tun, the TUN device  *)
(* is created, the pumps are made and joined; claim C34.                   *)
(***************************************************************************)

\* the configuration a server sends: address, gateway, netmask, mtu
RunConfigBytes == <<10, 0, 0, 2, 10, 0, 0, 1, 255, 255, 255, 252, 220, 5>>

\* what the stream of the server holds when the session starts: a whole
\* configuration and packets, a whole configuration and the end, a frame that
\* is one byte short, one byte long or empty, and a stream that ends before
\* the length or before the payload is whole
RunInbounds ==
    {Frame(RunConfigBytes) \o ClientInbound,
     Frame(RunConfigBytes),
     Frame(Take(RunConfigBytes, CONFIGURATION_SIZE - 1)),
     Frame(RunConfigBytes \o <<0>>),
     Frame(<<>>),
     <<>>,
     Take(Frame(RunConfigBytes), 1),
     Take(Frame(RunConfigBytes), CONFIGURATION_SIZE \div 2)}

\* a pump that Client::run has not made yet
NoPump == [NewPump EXCEPT !.pc = "none"]

\* Client::run after connect and split: the receiver and the sender wrap the
\* halves of the stream; there is no device and there are no pumps
RunInit ==
    /\ ForwardUnused
    /\ DispatchUnused
    /\ IpmUnused
    /\ RouterUnused
    /\ FrameUnused
    /\ ConfigUnused
    /\ ServerUnused
    /\ stop = [value |-> FALSE, version |-> 0]
    /\ pumps = [p \in Pumps |-> NoPump]
    /\ tunio = <<>>
    /\ \E inb \in RunInbounds : tlsio = [inb |-> inb, out |-> <<>>, shutdown |-> FALSE]
    /\ \E reroute \in BOOLEAN :
          crun = [pc |-> "configure", reroute |-> reroute, route_manager |-> None,
                  host |-> HostRoutes, read_half |-> FALSE, write_half |-> FALSE,
                  result |-> "none",
                  lenbuf |-> <<>>, config |-> <<>>, received |-> "none"]
    /\ chist = [dropped |-> <<>>]

\* configure_tun, receiver.receive(): read_u16 reads the two bytes of the
\* length, in one read or two; a length of 0 ends receive
ConfigureReceiveLen ==
    /\ crun.pc = "configure"
    /\ Len(crun.lenbuf) < 2
    /\ tlsio.inb # <<>>
    /\ \E n \in ClientChunks(Min2(2 - Len(crun.lenbuf), Len(tlsio.inb))) :
          LET lenbuf == crun.lenbuf \o Take(tlsio.inb, n)
              done == Len(lenbuf) = 2 /\ FromLeBytes(lenbuf) = 0
          IN /\ tlsio' = [tlsio EXCEPT !.inb = Drop(@, n)]
             /\ crun' = [crun EXCEPT !.lenbuf = lenbuf,
                                     !.pc = IF done THEN "ensure" ELSE @,
                                     !.received = IF done THEN "ok" ELSE @]
    /\ UNCHANGED <<stop, pumps, tunio, chist, notClientVars>>

\* configure_tun, receiver.receive(): the read loop of the payload
ConfigureReceivePayload ==
    /\ crun.pc = "configure"
    /\ Len(crun.lenbuf) = 2
    /\ tlsio.inb # <<>>
    /\ LET packet_size == FromLeBytes(crun.lenbuf)
           missing == packet_size - Len(crun.config)
       IN \E n \in ClientChunks(Min2(missing, Len(tlsio.inb))) :
             LET done == n = missing
             IN /\ tlsio' = [tlsio EXCEPT !.inb = Drop(@, n)]
                /\ crun' = [crun EXCEPT !.config = @ \o Take(tlsio.inb, n),
                                        !.pc = IF done THEN "ensure" ELSE @,
                                        !.received = IF done THEN "ok" ELSE @]
    /\ UNCHANGED <<stop, pumps, tunio, chist, notClientVars>>

\* configure_tun, .context("could not receive configuration")?: a read fails,
\* or the stream ends (read_u16 at the end, or received == 0); run returns
\* the error
ConfigureReceiveFail ==
    /\ crun.pc = "configure"
    /\ crun' = [crun EXCEPT !.pc = "returned", !.result = "err", !.received = "err"]
    /\ UNCHANGED <<stop, pumps, tlsio, tunio, chist, notClientVars>>

\* configure_tun: the condition of ensure!
ConfigLenOk_Any(received) == TRUE
ConfigLenOk(received) == Len(received) = CONFIGURATION_SIZE

\* configure_tun: ensure!(config.len() == CONFIGURATION_SIZE, ..), then the
\* tun::Configuration is built; run returns the error of ensure!
EnsureSize ==
    /\ crun.pc = "ensure"
    /\ crun' = IF ConfigLenOk(crun.config)
               THEN [crun EXCEPT !.pc = "create_tun"]
               ELSE [crun EXCEPT !.pc = "returned", !.result = "err"]
    /\ UNCHANGED <<stop, pumps, tlsio, tunio, chist, notClientVars>>

\* Client::run: tun::create_as_async(&tun_config)?; the device has the
\* packets the host will route to it
CreateTun ==
    /\ crun.pc = "create_tun"
    /\ \E ok \in BOOLEAN :
          IF ok
          THEN /\ \E n \in 0 .. MaxTunIn : \E q \in [1 .. n -> ClientTunPackets] :
                     tunio' = [inq |-> q, out |-> <<>>]
               /\ crun' = [crun EXCEPT !.pc = "pumps"]
          ELSE /\ tunio' = tunio
               /\ crun' = [crun EXCEPT !.pc = "returned", !.result = "err"]
    /\ UNCHANGED <<stop, pumps, tlsio, chist, notClientVars>>

\* Client::run: send_tun(..) and receive_tun(..) get the receiver, the
\* sender, the halves of the device and a clone of stop_receiver each, and
\* join! starts them
StartPumps ==
    /\ crun.pc = "pumps"
    /\ pumps' = [p \in Pumps |-> NewPump]
    /\ crun' = [crun EXCEPT !.pc = "join"]
    /\ UNCHANGED <<stop, tlsio, tunio, chist, notClientVars>>

RunNext ==
    \/ ConfigureReceiveLen
    \/ ConfigureReceivePayload
    \/ ConfigureReceiveFail
    \/ EnsureSize
    \/ CreateTun
    \/ StartPumps
    \/ ClientNext

RunSpec == RunInit /\ [][RunNext]_vars

\* the receive of the configuration returned an error, or it returned a
\* configuration that is not CONFIGURATION_SIZE bytes long
BadConfiguration ==
    \/ crun.received = "err"
    \/ crun.received = "ok" /\ Len(crun.config) # CONFIGURATION_SIZE

\* C34: when the configuration the client receives at the start of the
\* session is not exactly 14 bytes long, or the stream ends (or fails) before
\* it is whole, the session fails before any side effect: no TUN device is
\* created, no pump is started, nothing is sent on the stream, and run
\* returns an error.
C34_BadConfigurationNoEffect ==
    BadConfiguration =>
        /\ tunio = <<>>
        /\ \A p \in Pumps : pumps[p] = NoPump
        /\ tlsio.out = <<>>
        /\ ~tlsio.shutdown
        /\ crun.pc \in {"ensure", "returned"}
        /\ crun.pc = "returned" => crun.result = "err"

\* a frame of 13 bytes was received whole, ensure! has failed and run has
\* returned its error
C34_Witness ==
    /\ crun.pc = "returned"
    /\ crun.received = "ok"
    /\ Len(crun.config) = CONFIGURATION_SIZE - 1
    /\ crun.result = "err"


(***************************************************************************)
(* The default route of the host and the pumps: claim C35.                 *)
(***************************************************************************)

\* the default route goes through the VPN gateway and the /32 route for the
\* server is installed
Rerouted(host) == host.exception /\ host.default = "vpn"

\* a pump was started and has not returned
PumpsRun == \E p \in Pumps : pumps[p].pc \notin Returned \cup {"none"}

\* C35: with reroute enabled the default route of the host is replaced, with
\* the /32 route for the server installed, before the pumps start to move
\* packets, and stays replaced for as long as the pumps run: while a pump
\* runs the host is rerouted.
C35_ReroutedWhilePumpsRun ==
    (crun.reroute /\ PumpsRun) => Rerouted(crun.host)

\* what run does: the routes of the host are touched only when both pumps
\* have returned and join! is over
C35_ReroutedAfterJoin ==
    crun.host # HostRoutes =>
        /\ crun.pc \in {"reroute", "unsplit", "shutdown", "reset", "returned"}
        /\ \A p \in Pumps : pumps[p].pc \in Returned


(***************************************************************************)
(* The end of the stream and the end of Client::run: claim C36.            *)
(***************************************************************************)

\* what run does of its own after join!: the statements up to its return
RunProgress ==
    \/ JoinPumps
    \/ Reroute
    \/ UnsplitHalves
    \/ Shutdown
    \/ ResetRoutes

\* the pumps are polled as in FairClientSpec, and run goes on from one
\* statement to the next: the calls it awaits after join! complete
FairSessionSpec ==
    /\ FairClientSpec
    /\ WF_vars(RunProgress)

\* C36: when the stream has closed and send_tun has returned with the error
\* of its receive, Client::run returns eventually, although the stop latch is
\* not raised and the TUN device has no packet to hand over: the end of one
\* pump makes the other end.
C36_StreamEndReturnsRun ==
    (pumps["send_tun"].pc = "err" /\ tunio.inq = <<>>)
        ~> (crun.pc = "returned" \/ stop.value)

\* once the latch is raised, run returns
C36_RaisedLatchReturnsRun ==
    stop.value ~> crun.pc = "returned"

====
